---- MODULE Spec2Model ----
(***************************************************************************)
(* NebulaDB storage engine and write-ahead log.                            *)
(*                                                                         *)
(* Files are modelled as byte sequences (blocks.bin, <collection>.wal),    *)
(* the codecs produce and parse those bytes, and the managers are          *)
(* modelled field by field.  The specifications share the variables:      *)
(*   SpecStore    one Collection handle over one collection directory      *)
(*   SpecBlocks   one BlockManager called with any id                      *)
(*   SpecStorage  the Storage of the storage crate                         *)
(*   SpecLog      one WalLog                                               *)
(*   SpecLogDamaged  one WalLog whose file is damaged once                 *)
(*   SpecWal      one WalManager, non-transactional operations and crashes *)
(*   SpecTx       one WalManager, transactions and crashes                 *)
(*   SpecTxCalls  one WalManager, calls with any transaction id            *)
(*   SpecWalTx    one WalManager, all writes, checkpoint_interval = 0      *)
(*   SpecDb       the Database facade and the command-line interface       *)
(*   SpecThreads  threads sharing one Database and its WalManager          *)
(***************************************************************************)
EXTENDS Integers, Sequences, FiniteSets, TLC

(***************************************************************************)
(* Bounds of the model.                                                    *)
(***************************************************************************)
\* number of operations one behaviour performs
MaxOps == 5
\* largest value of the wall clock (seconds)
MaxClock == 1
\* flush_threshold values the collection is configured with
FlushThresholdLow == 64
FlushThresholdHigh == 200
\* number of non-transactional WAL appends of one behaviour
MaxWalOps == 2
\* number of writes under one transaction
MaxTxWrites == 1
\* number of times the process dies
MaxCrashes == 1
\* number of recover() calls on one manager
MaxRecovers == 1
\* number of document operations through the command-line interface
MaxDbOps == 2
\* number of transactions begun through the Database
MaxDbBegins == 1
\* number of transactions begun on the WalManager
MaxBegins == 2
\* the non-zero WalConfig.checkpoint_interval (seconds)
CheckpointIntervalOn == 1
\* number of bytes of an entry that reach the file when the append is
\* interrupted inside the header
TornHeaderCut == 10
\* largest transaction id a caller passes to the manager
MaxTxId == 2
\* number of inserts through one Storage of the storage crate
MaxStorageOps == 3
\* number of transactions begun beside non-transactional writes
FewBegins == 1
\* number of appends to one WalLog
MaxLogAppends == 2
\* length of a payload that does not fit the buffer of WalLog::read_at
BigPayloadLen == 4096
\* number of threads that share the Database and its WalManager
MaxThreads == 2
\* number of calls the threads make on the shared WalManager
MaxSharedCalls == 2
\* number of WalIterator::next calls followed before None is expected
MaxNextCalls == 8
\* the small max_collections a caller passes to Database::configure
FewOpenCollections == 1

(***************************************************************************)
(* Byte helpers.                                                           *)
(***************************************************************************)
\* larger than any buffer of the model; stands for a length the buffer
\* cannot hold
Huge == 1000000

RECURSIVE LE(_, _)
\* n.to_le_bytes() truncated to w bytes
LE(n, w) == IF w = 0 THEN <<>> ELSE <<n % 256>> \o LE(n \div 256, w - 1)

\* u16::from_le_bytes
U16(b) == b[1] + 256 * b[2]

\* u32::from_le_bytes as usize
U32(b) == IF b[3] # 0 \/ b[4] # 0 THEN Huge ELSE b[1] + 256 * b[2]

\* u64::from_le_bytes
U64(b) ==
    IF \E i \in 3..8 : b[i] # 0 THEN Huge ELSE b[1] + 256 * b[2]

\* bytes[from .. to) with 0-based offsets, as a Rust slice
Slice(bytes, from, to) == SubSeq(bytes, from + 1, to)

RECURSIVE SumBytes(_)
\* iter().fold(0u32, |acc, &b| acc.wrapping_add(b as u32)), for a sum below
\* 2^31; the sum is taken by halves
SumBytes(bytes) ==
    IF bytes = <<>> THEN 0
    ELSE IF Len(bytes) = 1 THEN bytes[1]
    ELSE LET half == Len(bytes) \div 2
         IN  SumBytes(SubSeq(bytes, 1, half))
                 + SumBytes(SubSeq(bytes, half + 1, Len(bytes)))

\* u32 wrapping_add on values kept as [lo, hi] 16-bit halves
WrapAdd32(a, b) ==
    LET lo == a.lo + b.lo
        hi == a.hi + b.hi + (lo \div 65536)
    IN  [lo |-> lo % 65536, hi |-> hi % 65536]

\* a number below 2^31 as a u32
ToU32(n) == [lo |-> n % 65536, hi |-> n \div 65536]

\* u32::to_le_bytes
U32Bytes(c) == LE(c.lo, 2) \o LE(c.hi, 2)

StartsWith(bytes, b) == Len(bytes) > 0 /\ bytes[1] = b
EndsWith(bytes, b) == Len(bytes) > 0 /\ bytes[Len(bytes)] = b

RECURSIVE ToDecimal(_)
\* format!("{}", n) of an unsigned integer
ToDecimal(n) ==
    IF n < 10 THEN <<48 + n>> ELSE ToDecimal(n \div 10) \o <<48 + (n % 10)>>

\* write_all(bytes) at offset pos of a file; a gap is filled with zeros
WriteAt(content, pos, bytes) ==
    LET newLen == IF pos + Len(bytes) > Len(content) THEN pos + Len(bytes)
                  ELSE Len(content)
    IN  [i \in 1..newLen |->
            IF i > pos /\ i <= pos + Len(bytes) THEN bytes[i - pos]
            ELSE IF i <= Len(content) THEN content[i]
            ELSE 0]

(***************************************************************************)
(* Block format (crates/storage/src/lib.rs, block.rs).                     *)
(***************************************************************************)
BlockHeaderSIZE == 34
BlockFooterSIZE == 8
BlockHeaderMAGIC == <<78, 66, 76, 68>>
BlockHeaderVERSION == 1

\* CompressionType as u8
CompressionNone == 0
CompressionSnappy == 1
CompressionZstd == 2
CompressionLz4 == 3

None == [tag |-> "None"]
Some(v) == [tag |-> "Some", value |-> v]

\* DocumentEntry::size
DocumentEntrySize(id, data) == 2 + Len(id) + 4 + Len(data)

\* DocumentEntry::to_bytes
DocumentEntryToBytes(id, data) ==
    LE(Len(id), 2) \o id \o LE(Len(data), 4) \o data

\* Block::compute_checksum
compute_checksum(block) ==
    LET s1 == ToU32(SumBytes(block.header.magic))
        s2 == WrapAdd32(s1, ToU32(block.header.version))
        s3 == WrapAdd32(s2, ToU32(block.header.compression))
        s4 == WrapAdd32(s3, ToU32(block.header.doc_count))
        s5 == WrapAdd32(s4, ToU32(block.header.uncompressed_size))
        s6 == WrapAdd32(s5, ToU32(block.header.compressed_size))
        s7 == WrapAdd32(s6, ToU32(block.header.created_at))
    IN  WrapAdd32(s7, ToU32(SumBytes(block.data)))

\* Block::new
BlockNew(compression, clock) ==
    [header |-> [magic |-> BlockHeaderMAGIC,
                 version |-> BlockHeaderVERSION,
                 compression |-> compression,
                 doc_count |-> 0,
                 uncompressed_size |-> 0,
                 compressed_size |-> 0,
                 created_at |-> clock],
     data |-> <<>>,
     footer |-> [checksum |-> ToU32(0), magic |-> BlockHeaderMAGIC]]

\* Block::size
BlockSize(block) == BlockHeaderSIZE + Len(block.data) + BlockFooterSIZE

\* Block::add_document
add_document(block, id, data) ==
    LET doc_bytes == DocumentEntryToBytes(id, data)
        b1 == [block EXCEPT !.data = @ \o doc_bytes,
                            !.header.doc_count = @ + 1,
                            !.header.uncompressed_size = @ + Len(doc_bytes)]
    IN  [b1 EXCEPT !.footer.checksum = compute_checksum(b1)]

\* to_bytes that writes doc_count as a u16
BlockToBytesNarrowCount(block) ==
    block.header.magic \o <<block.header.version>>
        \o <<block.header.compression>>
        \o LE(block.header.doc_count, 2)
        \o LE(block.header.uncompressed_size, 8)
        \o LE(block.header.compressed_size, 8)
        \o LE(block.header.created_at, 8)
        \o block.data
        \o U32Bytes(block.footer.checksum)
        \o block.footer.magic

\* the bytes BlockManager::flush writes: header, data, footer
BlockToBytes(block) ==
    block.header.magic \o <<block.header.version>>
        \o <<block.header.compression>>
        \o LE(block.header.doc_count, 4)
        \o LE(block.header.uncompressed_size, 8)
        \o LE(block.header.compressed_size, 8)
        \o LE(block.header.created_at, 8)
        \o block.data
        \o U32Bytes(block.footer.checksum)
        \o block.footer.magic

Err == [tag |-> "Err"]
Ok(v) == [tag |-> "Ok", value |-> v]

\* Block::from_bytes
BlockFromBytes(bytes) ==
    IF Len(bytes) < BlockHeaderSIZE + BlockFooterSIZE THEN Err
    ELSE IF Slice(bytes, 0, 4) # BlockHeaderMAGIC THEN Err
    ELSE IF bytes[6] \notin 0..3 THEN Err
    ELSE LET data_end == Len(bytes) - BlockFooterSIZE
         IN  IF Slice(bytes, data_end + 4, data_end + 8) # BlockHeaderMAGIC
             THEN Err
             ELSE Ok([header |-> [magic |-> Slice(bytes, 0, 4),
                                  version |-> bytes[5],
                                  compression |-> bytes[6],
                                  doc_count |-> U32(Slice(bytes, 6, 10)),
                                  uncompressed_size |-> U64(Slice(bytes, 10, 18)),
                                  compressed_size |-> U64(Slice(bytes, 18, 26)),
                                  created_at |-> U64(Slice(bytes, 26, 34))],
                      data |-> Slice(bytes, BlockHeaderSIZE, data_end),
                      footer |-> [checksum |->
                                     [lo |-> U16(Slice(bytes, data_end, data_end + 2)),
                                      hi |-> U16(Slice(bytes, data_end + 2, data_end + 4))],
                                  magic |-> Slice(bytes, data_end + 4, data_end + 8)]])

\* from_bytes whose last length test refuses a buffer that ends with the entry
DocumentEntryFromBytesOffByOne(bytes) ==
    IF Len(bytes) < 6 THEN Err
    ELSE LET id_len == U16(Slice(bytes, 0, 2))
         IN  IF Len(bytes) < 2 + id_len + 4 THEN Err
             ELSE LET data_start == 2 + id_len
                      data_len == U32(Slice(bytes, data_start, data_start + 4))
                  IN  IF Len(bytes) <= 2 + id_len + 4 + data_len THEN Err
                      ELSE Ok([id |-> Slice(bytes, 2, 2 + id_len),
                               data |-> Slice(bytes, data_start + 4,
                                              data_start + 4 + data_len)])

\* DocumentEntry::from_bytes: Err, or Ok of the id and the data
DocumentEntryFromBytes(bytes) ==
    IF Len(bytes) < 6 THEN Err
    ELSE LET id_len == U16(Slice(bytes, 0, 2))
         IN  IF Len(bytes) < 2 + id_len + 4 THEN Err
             ELSE LET data_start == 2 + id_len
                      data_len == U32(Slice(bytes, data_start, data_start + 4))
                  IN  IF Len(bytes) < 2 + id_len + 4 + data_len THEN Err
                      ELSE Ok([id |-> Slice(bytes, 2, 2 + id_len),
                               data |-> Slice(bytes, data_start + 4,
                                              data_start + 4 + data_len)])

(***************************************************************************)
(* State.                                                                  *)
(***************************************************************************)
VARIABLES
    \* wall clock, seconds
    now,
    \* number of operations performed so far
    nops,
    \* <dir>/blocks.bin of the collection: existence and content
    file_exists,
    file_content,
    \* StorageConfig of the open handle
    flush_threshold,
    compression,
    \* BlockManager.active_block and BlockManager.current_block_idx
    active_block,
    current_block_idx,
    \* what the caller did with each id so far:
    \*   inserts  number of insert(id, _) calls (counted up to 2)
    \*   last     the value of the last insert(id, _)
    \*   state    of the last insert(id, _): "none" (no insert yet), "pending"
    \*            (no flush since), "flushed" (a flush returned after it on the
    \*            same handle), "lost" (the handle was replaced before a flush),
    \*            "dropped" (the collection was dropped since)
    \*   deleted  delete(id) was called at some time
    \*   tomb     delete(id) returned true after the last insert(id, _)
    \*   clash    a tombstone was written under this very id
    hist,
    \* the run of back-to-back delete calls that ends the history:
    \* [id, rets, live], live = id was inserted and not deleted before the run
    delrun,
    \* the directory of the collection exists
    dir_exists,
    \* the slots [position, size] that flush wrote a block to, in blocks.bin
    \* of the directory or of a directory of the same name removed since
    written

VARIABLES
    \* the WAL directory: collection name -> content of <name>.wal
    wal_files,
    \* a WalManager exists in the running process
    mgr_alive,
    \* number of times the process died; number of recover() calls on the
    \* running manager
    crashes,
    recovers,
    \* how the process died last: the logs left with a torn tail, and the
    \* entry_cache the manager held
    death,
    \* Database.collections: the names of the open collections
    collections,
    \* WalConfig.checkpoint_interval
    checkpoint_interval,
    \* Database.max_open_collections
    max_open_collections,
    \* WalManager.collection_wals: name -> [position, next_tx_id, last_checkpoint],
    \* position being WalLog.position of the open log
    collection_wals,
    \* the key collection_wals.keys().next() yields (NoKey when the map is empty)
    first_key,
    \* WalManager.active_transactions: tx_id -> positions
    active_transactions,
    \* WalManager.entry_cache: <<collection, doc_id>> -> position
    entry_cache,
    \* WalManager.last_auto_checkpoint
    last_auto_checkpoint,
    \* the transactions callers began, in order: [id, state, writes], state one of
    \* "active", "committed", "aborted", "lost" (open when the process died),
    \* writes the set of <<collection, doc_id, position>> appended for the caller
    txs,
    \* how often the running manager returned each id from begin_transaction
    returned,
    \* the last call on the manager and its result: [op, ret]
    last_op,
    \* the thread that holds the write guard of the Arc<RwLock<WalManager>>,
    \* 0 when the lock is free
    wal_guard,
    \* thread -> the manager call it is in: None, or Some of [stage, ret, w],
    \* stage "locked" (write() has returned) or "appended" (the log file is
    \* written, the fields of the manager are not yet), w the fields the call
    \* leaves in the manager
    inflight,
    \* the Arc<Mutex<Collection>> of users: [map, held], map the instance in
    \* Database.collections, held the instance each thread has a clone of
    \* (0: none); an instance lives as long as one of them names it
    arcs

walVars == <<wal_files, mgr_alive, crashes, recovers, death, collections,
             checkpoint_interval, max_open_collections, collection_wals, first_key, active_transactions, entry_cache,
             last_auto_checkpoint, txs, returned, last_op, wal_guard, inflight,
             arcs>>

storeVars == <<file_exists, file_content, flush_threshold, compression,
               active_block, current_block_idx, hist, delrun, dir_exists,
               written>>

(***************************************************************************)
(* Inputs.                                                                 *)
(***************************************************************************)
\* "k", "_k_"
DocIds == {<<107>>, <<95, 107, 95>>}
\* "1", "2"
DocValues == {<<49>>, <<50>>}

(***************************************************************************)
(* BlockManager (crates/storage/src/manager.rs).                           *)
(***************************************************************************)
\* a handle is the mutable part of a BlockManager
Handle == [active_block |-> active_block, current_block_idx |-> current_block_idx]

\* BlockManager::new: the handle Collection::open builds
FreshHandle == [active_block |-> None, current_block_idx |-> 0]

\* the size of Block::new(..), the stride the readers use
EmptyBlockSize == BlockHeaderSIZE + BlockFooterSIZE

RECURSIVE SearchFrom(_, _, _)
\* the loop of BlockManager::search_block_for_document
SearchFrom(data, offset, doc_id) ==
    IF offset >= Len(data) THEN None
    ELSE IF offset + 2 > Len(data) THEN None
    ELSE LET id_len == U16(Slice(data, offset, offset + 2))
         IN  IF offset + 2 + id_len > Len(data) THEN None
             ELSE IF Slice(data, offset + 2, offset + 2 + id_len) = doc_id
             THEN LET data_len_offset == offset + 2 + id_len
                  IN  IF data_len_offset + 4 > Len(data) THEN None
                      ELSE LET data_len == U32(Slice(data, data_len_offset,
                                                     data_len_offset + 4))
                           IN  IF data_len_offset + 4 + data_len > Len(data)
                               THEN None
                               ELSE Some(Slice(data, data_len_offset + 4,
                                               data_len_offset + 4 + data_len))
             ELSE IF offset + 2 + id_len + 4 > Len(data) THEN None
             ELSE SearchFrom(data,
                             offset + 2 + id_len + 4
                                 + U32(Slice(data, offset + 2 + id_len,
                                             offset + 2 + id_len + 4)),
                             doc_id)

\* BlockManager::search_block_for_document
search_block_for_document(block, doc_id) ==
    IF block.data = <<>> THEN None ELSE SearchFrom(block.data, 0, doc_id)

RECURSIVE FindInSlots(_, _)
\* the while loop of BlockManager::find_document over the slots of the file
FindInSlots(block_idx, doc_id) ==
    IF block_idx = 0 THEN None
    ELSE LET idx == block_idx - 1
             block_size == EmptyBlockSize
             position == idx * block_size
             file_size == Len(file_content)
             bytes_read == IF file_size - position < block_size
                           THEN file_size - position ELSE block_size
         IN  IF position >= file_size THEN FindInSlots(idx, doc_id)
             ELSE IF bytes_read < BlockHeaderSIZE THEN FindInSlots(idx, doc_id)
             ELSE LET parsed == BlockFromBytes(
                                    Slice(file_content, position,
                                          position + bytes_read))
                  IN  IF parsed = Err THEN FindInSlots(idx, doc_id)
                      ELSE LET doc_data == search_block_for_document(
                                               parsed.value, doc_id)
                           IN  IF doc_data # None THEN doc_data
                               ELSE FindInSlots(idx, doc_id)

\* BlockManager::find_document
find_document(h, doc_id) ==
    IF ~file_exists THEN None
    ELSE LET inActive == IF h.active_block # None
                         THEN search_block_for_document(h.active_block.value,
                                                        doc_id)
                         ELSE None
         IN  IF inActive # None THEN inActive
             ELSE IF Len(file_content) = 0 THEN None
             ELSE FindInSlots(h.current_block_idx, doc_id)

\* the tombstone id Collection::get and Collection::delete build
TombstoneId(id) == <<95>> \o id \o <<95>>

\* Collection::get
CollectionGet(h, id) ==
    LET found == find_document(h, id)
    IN  IF found = None THEN None
        ELSE IF find_document(h, TombstoneId(id)) # None THEN None
        ELSE found

\* the tombstone document Collection::delete formats
TombstoneData(id, clock) ==
    <<123, 34, 95, 100, 101, 108, 101, 116, 101, 100, 34, 58, 32, 116, 114,
      117, 101, 44, 32, 34, 95, 105, 100, 34, 58, 32, 34>>
        \o id
        \o <<34, 44, 32, 34, 95, 100, 101, 108, 101, 116, 101, 100, 95, 97,
             116, 34, 58, 32>>
        \o ToDecimal(clock)
        \o <<125>>

RECURSIVE ScanBlockFrom(_, _)
\* the loop of BlockManager::scan_block_for_document_ids
ScanBlockFrom(data, offset) ==
    IF offset >= Len(data) THEN <<>>
    ELSE IF offset + 2 > Len(data) THEN <<>>
    ELSE LET id_len == U16(Slice(data, offset, offset + 2))
         IN  IF offset + 2 + id_len > Len(data) THEN <<>>
             ELSE LET entry_id == Slice(data, offset + 2, offset + 2 + id_len)
                      this == IF ~(StartsWith(entry_id, 95) /\ EndsWith(entry_id, 95))
                              THEN <<entry_id>> ELSE <<>>
                  IN  IF offset + 2 + id_len + 4 > Len(data) THEN this
                      ELSE this \o ScanBlockFrom(
                               data,
                               offset + 2 + id_len + 4
                                   + U32(Slice(data, offset + 2 + id_len,
                                               offset + 2 + id_len + 4)))

\* BlockManager::scan_block_for_document_ids
scan_block_for_document_ids(block) ==
    IF block.data = <<>> THEN <<>> ELSE ScanBlockFrom(block.data, 0)

\* is_ascii_alphanumeric || is_ascii_punctuation || is_ascii_whitespace
IsValidIdByte(b) == b \in 32..126 \/ b \in {9, 10, 12, 13}

\* the entry id the loop of extract_ids_from_raw_block reads at offset
RawIdAt(block_data, offset) ==
    Slice(block_data, offset + 2,
          offset + 2 + U16(Slice(block_data, offset, offset + 2)))

\* the test of extract_ids_from_raw_block without its tombstone filter
RawIdAcceptedWithTombstones(block_data, offset) ==
    LET id_len == U16(Slice(block_data, offset, offset + 2))
        entry_id == RawIdAt(block_data, offset)
    IN  /\ ~(id_len = 0 \/ offset + 2 + id_len > Len(block_data))
        /\ entry_id # <<>>
        /\ \A i \in 1..Len(entry_id) : IsValidIdByte(entry_id[i])

\* extract_ids_from_raw_block pushes the id it reads at offset; at every other
\* offset the loop moves forward one byte
RawIdAccepted(block_data, offset) ==
    LET id_len == U16(Slice(block_data, offset, offset + 2))
        entry_id == RawIdAt(block_data, offset)
    IN  /\ ~(id_len = 0 \/ offset + 2 + id_len > Len(block_data))
        /\ entry_id # <<>>
        /\ ~(StartsWith(entry_id, 95) /\ EndsWith(entry_id, 95))
        /\ \A i \in 1..Len(entry_id) : IsValidIdByte(entry_id[i])

RECURSIVE ExtractFrom(_, _)
\* the loop of BlockManager::extract_ids_from_raw_block, from offset on: the
\* one-byte steps up to the next accepted id are taken at once
ExtractFrom(block_data, offset) ==
    LET accepted == {o \in offset..(Len(block_data) - 7) :
                        RawIdAccepted(block_data, o)}
    IN  IF accepted = {} THEN <<>>
        ELSE LET o == CHOOSE x \in accepted : \A y \in accepted : x <= y
                 id_len == U16(Slice(block_data, o, o + 2))
             IN  <<RawIdAt(block_data, o)>> \o
                 (IF o + 2 + id_len + 4 <= Len(block_data)
                  THEN ExtractFrom(block_data,
                                   o + 2 + id_len + 4
                                       + U32(Slice(block_data, o + 2 + id_len,
                                                   o + 2 + id_len + 4)))
                  ELSE ExtractFrom(block_data, o + 2 + id_len))

\* BlockManager::extract_ids_from_raw_block
extract_ids_from_raw_block(block_data) ==
    IF Len(block_data) < BlockHeaderSIZE THEN <<>>
    ELSE ExtractFrom(block_data, BlockHeaderSIZE)

RECURSIVE ScanRawFrom(_, _)
\* the magic-number search loop of BlockManager::scan_document_ids, from
\* position on: the one-byte steps up to the next magic are taken at once
ScanRawFrom(content, position) ==
    LET found == {p \in position..(Len(content) - 5) :
                     Slice(content, p, p + 4) = BlockHeaderMAGIC}
    IN  IF found = {} THEN <<>>
        ELSE LET p == CHOOSE x \in found : \A y \in found : x <= y
             IN  extract_ids_from_raw_block(Slice(content, p, Len(content)))
                     \o ScanRawFrom(content, p + 4)

\* BlockManager::scan_document_ids (Collection::scan)
scan_document_ids(h) ==
    LET fromActive == IF h.active_block # None
                      THEN scan_block_for_document_ids(h.active_block.value)
                      ELSE <<>>
    IN  IF ~file_exists THEN fromActive
        ELSE IF Len(file_content) = 0 THEN fromActive
        ELSE fromActive \o ScanRawFrom(file_content, 0)

(***************************************************************************)
(* BlockManager writers, as functions from the store to the store.         *)
(* A store is [exists, content, active_block, current_block_idx, written]. *)
(***************************************************************************)
Store == [exists |-> file_exists, content |-> file_content,
          active_block |-> active_block,
          current_block_idx |-> current_block_idx,
          written |-> written]

\* BlockManager::flush
flush(st, clock) ==
    IF st.active_block = None THEN st
    ELSE LET block_copy == st.active_block.value
             block_size == BlockSize(block_copy)
             position == st.current_block_idx * block_size
         IN  [exists |-> TRUE,
              content |-> WriteAt(IF st.exists THEN st.content ELSE <<>>,
                                  position, BlockToBytes(block_copy)),
              active_block |-> Some(BlockNew(compression, clock)),
              current_block_idx |-> st.current_block_idx + 1,
              written |-> st.written
                              \cup {[position |-> position, size |-> block_size]}]

\* BlockManager::find_next_block_idx
find_next_block_idx(st) ==
    IF ~st.exists THEN 0
    ELSE IF Len(st.content) = 0 THEN 0
    ELSE Len(st.content) \div EmptyBlockSize

\* BlockManager::ensure_active_block
ensure_active_block(st, clock) ==
    IF st.active_block = None
    THEN [st EXCEPT !.current_block_idx =
                        IF st.exists THEN find_next_block_idx(st) ELSE @,
                    !.active_block = Some(BlockNew(compression, clock))]
    ELSE st

\* flush_if_needed reading the threshold as a number of documents
flush_if_needed_by_count(st, clock) ==
    IF st.active_block # None
       /\ st.active_block.value.header.doc_count >= flush_threshold
    THEN flush(st, clock)
    ELSE st

\* BlockManager::flush_if_needed
flush_if_needed(st, clock) ==
    IF st.active_block # None
       /\ BlockSize(st.active_block.value) >= flush_threshold
    THEN flush(st, clock)
    ELSE st

\* BlockManager::insert (Collection::insert)
insert(st, id, data, clock) ==
    LET s1 == ensure_active_block(st, clock)
        s2 == [s1 EXCEPT !.active_block =
                             Some(add_document(s1.active_block.value, id, data))]
    IN  flush_if_needed(s2, clock)

(***************************************************************************)
(* WAL entry and log file format (crates/wal/src/entry.rs, log.rs).        *)
(***************************************************************************)
WAL_FORMAT_VERSION == 1
WAL_HEADER_SIZE == 16
WAL_MAGIC == <<78, 66, 87, 65>>
WAL_BUFFER_SIZE == 4096
EntryHeaderFIXED_SIZE == 39
EntryHeaderMAGIC == <<78, 66, 87, 76>>

\* EntryType as u8
Insert == 1
Update == 2
Delete == 3
BeginTx == 4
CommitTx == 5
AbortTx == 6
Checkpoint == 7

RECURSIVE MulAddBytes(_, _, _)
\* h.wrapping_mul(m).wrapping_add(a) on a little-endian u64
MulAddBytes(h, m, a) ==
    IF h = <<>> THEN <<>>
    ELSE LET t == h[1] * m + a
         IN  <<t % 256>> \o MulAddBytes(Tail(h), m, t \div 256)

RECURSIVE HashFrom(_, _)
HashFrom(hash, name) ==
    IF name = <<>> THEN hash
    ELSE HashFrom(MulAddBytes(hash, 31, name[1]), Tail(name))

\* collection_id_from_name, the u64 as its little-endian bytes
collection_id_from_name(name) == HashFrom(LE(0, 8), name)

\* WalEntry::new
WalEntryNew(entry_type, collection_id, transaction_id, document_id, data, clock) ==
    [entry_type |-> entry_type,
     collection_id |-> collection_id,
     transaction_id |-> transaction_id,
     document_id |-> document_id,
     data_size |-> Len(data),
     checksum |-> ToU32(SumBytes(data)),
     timestamp |-> clock,
     data |-> data]

\* WalEntry::to_bytes (EntryHeader::to_bytes followed by the data)
WalEntryToBytes(e) ==
    EntryHeaderMAGIC \o <<e.entry_type>> \o e.collection_id
        \o LE(e.transaction_id, 8)
        \o LE(Len(e.document_id), 2) \o e.document_id
        \o LE(e.data_size, 4) \o U32Bytes(e.checksum) \o LE(e.timestamp, 8)
        \o e.data

\* WalEntry::from_bytes (EntryHeader::from_bytes, the data, the checksum):
\* Err, or Ok of the entry and the number of bytes consumed
WalEntryFromBytes(bytes) ==
    IF Len(bytes) < EntryHeaderFIXED_SIZE - 2 THEN Err
    ELSE IF Slice(bytes, 0, 4) # EntryHeaderMAGIC THEN Err
    ELSE IF bytes[5] > 7 THEN Err
    ELSE LET doc_id_len == U16(Slice(bytes, 21, 23))
             offset == 23 + doc_id_len
         IN  IF Len(bytes) < offset + 16 THEN Err
             ELSE LET data_size == U32(Slice(bytes, offset, offset + 4))
                      checksum == [lo |-> U16(Slice(bytes, offset + 4, offset + 6)),
                                   hi |-> U16(Slice(bytes, offset + 6, offset + 8))]
                      data_start == offset + 16
                  IN  IF Len(bytes) < data_start + data_size THEN Err
                      ELSE LET data == Slice(bytes, data_start, data_start + data_size)
                           IN  IF ToU32(SumBytes(data)) # checksum THEN Err
                               ELSE Ok([entry |->
                                           [entry_type |-> bytes[5],
                                            collection_id |-> Slice(bytes, 5, 13),
                                            transaction_id |-> U64(Slice(bytes, 13, 21)),
                                            document_id |-> Slice(bytes, 23, offset),
                                            data_size |-> data_size,
                                            checksum |-> checksum,
                                            timestamp |-> U64(Slice(bytes, offset + 8,
                                                                    offset + 16)),
                                            data |-> data],
                                        consumed |-> data_start + data_size])

\* the preamble WalLog::create writes
WalPreamble(clock) ==
    WAL_MAGIC \o <<WAL_FORMAT_VERSION>> \o <<0, 0, 0>> \o LE(clock, 8)

(***************************************************************************)
(* WalManager (crates/wal/src/manager.rs), as functions on a world         *)
(*   [files, cw, first, at, ec, lac]                                       *)
(* of the WAL directory and the manager's fields.                          *)
(***************************************************************************)
\* "users", "orders", "_tx_manager"
Users == <<117, 115, 101, 114, 115>>
Orders == <<111, 114, 100, 101, 114, 115>>
TxManager == <<95, 116, 120, 95, 109, 97, 110, 97, 103, 101, 114>>
CollNames == {Users, Orders}
WalNames == {Users}

\* collection_id_from_name of the names in use
CollectionIds ==
    [n \in CollNames \cup {TxManager} |-> collection_id_from_name(n)]

NoKey == <<>>
EmptyMap == [x \in {} |-> 0]

\* map with key k set to v (HashMap::insert)
Put(map, k, v) == [x \in DOMAIN map \cup {k} |-> IF x = k THEN v ELSE map[x]]
\* map without key k (HashMap::remove)
Remove(map, k) == [x \in DOMAIN map \ {k} |-> map[x]]

World == [files |-> wal_files, cw |-> collection_wals, first |-> first_key,
          at |-> active_transactions, ec |-> entry_cache,
          lac |-> last_auto_checkpoint]

\* WalManager::new
NewWorld(files, clock) ==
    [files |-> files, cw |-> EmptyMap, first |-> NoKey, at |-> EmptyMap,
     ec |-> EmptyMap, lac |-> clock]

\* check_auto_checkpoint without its test of a zero interval
CheckpointDueAtZero(w, clock) ==
    clock - w.lac >= checkpoint_interval

\* the condition under which check_auto_checkpoint checkpoints
CheckpointDue(w, clock) ==
    checkpoint_interval # 0 /\ clock - w.lac >= checkpoint_interval

\* WalManager::get_or_create_wal up to its call of check_auto_checkpoint.
\* takeFirst: the new key becomes the first key of the map's iteration order
\* (with at most three keys the table is not resized, so the older keys keep
\* their relative order).
\* check_auto_checkpoint, when due and the map is not empty, calls checkpoint,
\* which calls get_or_create_wal, which calls check_auto_checkpoint again before
\* anything was appended or last_auto_checkpoint was reset: the recursion does
\* not end and the process dies of stack exhaustion (overflow).
get_or_create_wal(w, name, clock, takeFirst) ==
    LET w1 == IF name \notin DOMAIN w.cw
              THEN LET file == IF name \in DOMAIN w.files THEN w.files[name]
                               ELSE WalPreamble(clock)
                   IN  [w EXCEPT !.files = Put(w.files, name, file),
                                 !.cw = Put(w.cw, name,
                                            [position |-> Len(file),
                                             next_tx_id |-> 1,
                                             last_checkpoint |-> clock]),
                                 !.first = IF w.first = NoKey \/ takeFirst
                                           THEN name ELSE w.first]
              ELSE w
    IN  [w |-> w1, overflow |-> CheckpointDue(w1, clock)]

\* WalLog::append on the log of collection name: the world after it
LogAppend(w, name, entry) ==
    LET bytes == WalEntryToBytes(entry)
        pos == w.cw[name].position
    IN  [w EXCEPT !.files[name] = WriteAt(w.files[name], pos, bytes),
                  !.cw[name].position = pos + Len(bytes)]

\* WalManager::insert, update and delete (entry_type tells which)
WalWrite(w, entry_type, name, document_id, data, clock, takeFirst) ==
    LET g == get_or_create_wal(w, name, clock, takeFirst)
        entry == WalEntryNew(entry_type, CollectionIds[name], 0,
                             document_id, data, clock)
        position == g.w.cw[name].position
        w2 == LogAppend(g.w, name, entry)
    IN  IF g.overflow THEN [w |-> g.w, ret |-> "overflow"]
        ELSE [w |-> [w2 EXCEPT !.ec = Put(w2.ec, <<name, document_id>>, position)],
              ret |-> "Ok"]

\* WalManager::begin_transaction
begin_transaction(w, clock) ==
    LET g0 == IF w.first # NoKey THEN [w |-> w, overflow |-> FALSE]
              ELSE get_or_create_wal(w, TxManager, clock, TRUE)
        collection_name == g0.w.first
        g == get_or_create_wal(g0.w, collection_name, clock, FALSE)
        tx_id == g.w.cw[collection_name].next_tx_id
        w1 == [g.w EXCEPT !.cw[collection_name].next_tx_id = @ + 1]
        position == w1.cw[collection_name].position
        w2 == LogAppend(w1, collection_name,
                        WalEntryNew(BeginTx, LE(0, 8), tx_id, <<>>, <<>>, clock))
    IN  IF g0.overflow THEN [w |-> g0.w, ret |-> "overflow"]
        ELSE IF g.overflow THEN [w |-> g.w, ret |-> "overflow"]
        ELSE [w |-> [w2 EXCEPT !.at = Put(w2.at, tx_id, <<position>>)],
              ret |-> "Ok", tx_id |-> tx_id]

\* insert_in_transaction without its contains_key test
WriteInTransactionUnchecked(w, entry_type, tx_id, name, document_id, data, clock, takeFirst) ==
    LET g == get_or_create_wal(w, name, clock, takeFirst)
        entry == WalEntryNew(entry_type, CollectionIds[name],
                             tx_id, document_id, data, clock)
        position == g.w.cw[name].position
        w2 == LogAppend(g.w, name, entry)
    IN  IF g.overflow THEN [w |-> g.w, ret |-> "overflow"]
        ELSE [w |-> IF tx_id \in DOMAIN w2.at
                    THEN [w2 EXCEPT !.at[tx_id] = Append(@, position)] ELSE w2,
              ret |-> "Ok", position |-> position]

\* WalManager::insert_in_transaction, update_in_transaction and
\* delete_in_transaction (entry_type tells which)
WriteInTransaction(w, entry_type, tx_id, name, document_id, data, clock, takeFirst) ==
    IF tx_id \notin DOMAIN w.at THEN [w |-> w, ret |-> "Err"]
    ELSE LET g == get_or_create_wal(w, name, clock, takeFirst)
             entry == WalEntryNew(entry_type, CollectionIds[name],
                                  tx_id, document_id, data, clock)
             position == g.w.cw[name].position
             w2 == LogAppend(g.w, name, entry)
         IN  IF g.overflow THEN [w |-> g.w, ret |-> "overflow"]
             ELSE [w |-> [w2 EXCEPT !.at[tx_id] = Append(@, position)],
                   ret |-> "Ok", position |-> position]

\* WalManager::commit_transaction and abort_transaction (entry_type tells which)
FinishTransaction(w, entry_type, tx_id, clock) ==
    IF tx_id \notin DOMAIN w.at THEN [w |-> w, ret |-> "Err"]
    ELSE IF w.first = NoKey THEN [w |-> w, ret |-> "Err"]
    ELSE LET g == get_or_create_wal(w, w.first, clock, FALSE)
             w2 == LogAppend(g.w, w.first,
                             WalEntryNew(entry_type, LE(0, 8), tx_id, <<>>, <<>>,
                                         clock))
         IN  IF g.overflow THEN [w |-> g.w, ret |-> "overflow"]
             ELSE [w |-> [w2 EXCEPT !.at = Remove(w2.at, tx_id)], ret |-> "Ok"]

\* WalManager::checkpoint
checkpoint(w, name, clock, takeFirst) ==
    LET g == get_or_create_wal(w, name, clock, takeFirst)
        w2 == LogAppend(g.w, name,
                        WalEntryNew(Checkpoint, CollectionIds[name], 0,
                                    <<>>, <<>>, clock))
    IN  IF g.overflow THEN [w |-> g.w, ret |-> "overflow"]
        ELSE [w |-> [w2 EXCEPT !.cw[name].last_checkpoint = clock], ret |-> "Ok"]

RECURSIVE IterFrom(_, _, _)
\* WalIterator::next, called until it returns None or an error: the items
\* (position, entry) it yields, and whether it ended with an error
IterFrom(file, position, buffer_len) ==
    IF position >= Len(file) THEN [items |-> <<>>, ret |-> "Ok"]
    ELSE LET bytes_read == IF Len(file) - position < buffer_len
                           THEN Len(file) - position ELSE buffer_len
             parsed == WalEntryFromBytes(Slice(file, position, position + bytes_read))
         IN  IF parsed = Err THEN [items |-> <<>>, ret |-> "Err"]
             ELSE LET rest == IterFrom(file, position + parsed.value.consumed,
                                       bytes_read)
                  IN  [items |-> <<[position |-> position,
                                    entry |-> parsed.value.entry]>> \o rest.items,
                       ret |-> rest.ret]

\* WalLog::open followed by WalLog::iterate, consumed to its end
iterate(file) == IterFrom(file, WAL_HEADER_SIZE, WAL_BUFFER_SIZE)

\* max of a finite set of numbers, 0 for the empty set
MaxOf(S) == IF S = {} THEN 0 ELSE CHOOSE x \in S : \A y \in S : y <= x

RECURSIVE RecoverLoop(_, _, _, _, _, _, _)
\* the for loop of WalManager::recover_collection over WalLog::iterate:
\* WalIterator::next reads up to buffer.len() bytes at the file cursor, truncates
\* the buffer to what it read and decodes one entry from the start of it
RecoverLoop(name, file, position, buffer_len, valid_transactions, completed_transactions, ec) ==
    IF position >= Len(file)
    THEN [ret |-> "Ok", ec |-> ec, valid_transactions |-> valid_transactions]
    ELSE LET bytes_read == IF Len(file) - position < buffer_len
                           THEN Len(file) - position ELSE buffer_len
             parsed == WalEntryFromBytes(Slice(file, position, position + bytes_read))
         IN  IF parsed = Err
             THEN [ret |-> "Err", ec |-> ec, valid_transactions |-> valid_transactions]
             ELSE LET entry == parsed.value.entry
                      tx_id == entry.transaction_id
                      next == position + parsed.value.consumed
                  IN  IF entry.entry_type = BeginTx
                      THEN RecoverLoop(name, file, next, bytes_read,
                                       valid_transactions \cup {tx_id},
                                       completed_transactions, ec)
                      ELSE IF entry.entry_type = CommitTx
                      THEN RecoverLoop(name, file, next, bytes_read,
                                       valid_transactions,
                                       Put(completed_transactions, tx_id, TRUE), ec)
                      ELSE IF entry.entry_type = AbortTx
                      THEN RecoverLoop(name, file, next, bytes_read,
                                       valid_transactions,
                                       Put(completed_transactions, tx_id, FALSE), ec)
                      ELSE IF entry.entry_type \in {Insert, Update, Delete}
                      THEN RecoverLoop(name, file, next, bytes_read,
                                       valid_transactions, completed_transactions,
                                       IF tx_id = 0
                                          \/ (tx_id \in DOMAIN completed_transactions
                                              /\ completed_transactions[tx_id])
                                       THEN Put(ec, <<name, entry.document_id>>, position)
                                       ELSE ec)
                      ELSE RecoverLoop(name, file, next, bytes_read,
                                       valid_transactions, completed_transactions, ec)

\* recover_collection that leaves the log positioned after the preamble
recover_collection_rewound(w, name, clock, takeFirst) ==
    LET file == w.files[name]
        r == RecoverLoop(name, file, WAL_HEADER_SIZE, WAL_BUFFER_SIZE, {},
                         EmptyMap, w.ec)
    IN  IF r.ret = "Err" THEN [w |-> [w EXCEPT !.ec = r.ec], ret |-> "Err"]
        ELSE [w |-> [w EXCEPT !.ec = r.ec,
                              !.cw = Put(w.cw, name,
                                         [position |-> WAL_HEADER_SIZE,
                                          next_tx_id |-> MaxOf(r.valid_transactions) + 1,
                                          last_checkpoint |-> clock]),
                              !.first = IF w.first = NoKey
                                           \/ (name \notin DOMAIN w.cw /\ takeFirst)
                                        THEN name ELSE w.first],
              ret |-> "Ok"]

\* WalManager::recover_collection
recover_collection(w, name, clock, takeFirst) ==
    LET file == w.files[name]
        r == RecoverLoop(name, file, WAL_HEADER_SIZE, WAL_BUFFER_SIZE, {},
                         EmptyMap, w.ec)
    IN  IF r.ret = "Err" THEN [w |-> [w EXCEPT !.ec = r.ec], ret |-> "Err"]
        ELSE [w |-> [w EXCEPT !.ec = r.ec,
                              !.cw = Put(w.cw, name,
                                         [position |-> Len(file),
                                          next_tx_id |-> MaxOf(r.valid_transactions) + 1,
                                          last_checkpoint |-> clock]),
                              !.first = IF w.first = NoKey
                                           \/ (name \notin DOMAIN w.cw /\ takeFirst)
                                        THEN name ELSE w.first],
              ret |-> "Ok"]

RECURSIVE RecoverFiles(_, _, _, _)
\* the loop of WalManager::recover over the directory entries, in the order
\* read_dir yields them; firsts: the names that become the first key of
\* collection_wals when they are inserted
RecoverFiles(w, order, clock, firsts) ==
    IF order = <<>> THEN [w |-> w, ret |-> "Ok"]
    ELSE LET r == recover_collection(w, Head(order), clock, Head(order) \in firsts)
         IN  IF r.ret = "Err" THEN r
             ELSE RecoverFiles(r.w, Tail(order), clock, firsts)

\* the orders in which read_dir can yield the files of the WAL directory
DirOrders(files) ==
    {o \in [1..Cardinality(DOMAIN files) -> DOMAIN files] :
        \A i, j \in DOMAIN o : i # j => o[i] # o[j]}

(***************************************************************************)
(* Actions on one collection (crates/storage/src/collection.rs).           *)
(***************************************************************************)
vars == <<now, nops, storeVars, walVars>>

NoRun == [id |-> <<>>, rets |-> <<>>, live |-> FALSE]

SetStore(st) ==
    /\ file_exists' = st.exists
    /\ file_content' = st.content
    /\ active_block' = st.active_block
    /\ current_block_idx' = st.current_block_idx
    /\ written' = st.written

\* the insert flushed the active block (flush_if_needed took its branch)
InsertFlushed(st, id, data, clock) ==
    insert(st, id, data, clock).current_block_idx
        # ensure_active_block(st, clock).current_block_idx

\* every pending insert becomes flushed
MarkFlushed(h) ==
    [i \in DOMAIN h |->
        IF h[i].state = "pending" THEN [h[i] EXCEPT !.state = "flushed"] ELSE h[i]]

Min(a, b) == IF a < b THEN a ELSE b

\* the clock advances
Tick ==
    /\ now < MaxClock
    /\ now' = now + 1
    /\ UNCHANGED <<nops, storeVars, walVars>>

\* Collection::insert(id, data)
CollectionInsert(id, data) ==
    /\ nops < MaxOps
    /\ nops' = nops + 1
    /\ SetStore(insert(Store, id, data, now))
    /\ LET h1 == [hist EXCEPT ![id] = [@ EXCEPT !.inserts = Min(2, @ + 1),
                                                !.last = data,
                                                !.state = "pending",
                                                !.tomb = FALSE,
                                                !.clash = FALSE]]
       IN  hist' = IF InsertFlushed(Store, id, data, now) THEN MarkFlushed(h1)
                   ELSE h1
    /\ delrun' = NoRun
    /\ UNCHANGED <<now, flush_threshold, compression, dir_exists, walVars>>

\* Collection::delete(id)
CollectionDelete(id) ==
    /\ nops < MaxOps
    /\ nops' = nops + 1
    /\ LET exists == CollectionGet(Handle, id) # None
           tid == TombstoneId(id)
           tdata == TombstoneData(id, now)
           h1 == [i \in DOMAIN hist |->
                     IF i = id
                     THEN [hist[i] EXCEPT !.deleted = TRUE,
                                          !.tomb = exists /\ hist[i].inserts > 0]
                     ELSE IF i = tid /\ exists
                     THEN [hist[i] EXCEPT !.clash = TRUE]
                     ELSE hist[i]]
       IN  /\ IF exists
              THEN /\ SetStore(insert(Store, tid, tdata, now))
                   /\ hist' = IF InsertFlushed(Store, tid, tdata, now)
                              THEN MarkFlushed(h1) ELSE h1
              ELSE /\ UNCHANGED <<file_exists, file_content, active_block,
                                  current_block_idx, written>>
                   /\ hist' = h1
           /\ delrun' = IF delrun.id = id
                        THEN [delrun EXCEPT !.rets = Append(@, exists)]
                        ELSE [id |-> id, rets |-> <<exists>>,
                              live |-> hist[id].state \in {"pending", "flushed"}
                                       /\ ~hist[id].deleted]
    /\ UNCHANGED <<now, flush_threshold, compression, dir_exists, walVars>>

\* BlockManager::flush, which is also Collection::close
CollectionFlush ==
    /\ nops < MaxOps
    /\ nops' = nops + 1
    /\ SetStore(flush(Store, now))
    /\ hist' = IF active_block # None THEN MarkFlushed(hist) ELSE hist
    /\ delrun' = NoRun
    /\ UNCHANGED <<now, flush_threshold, compression, dir_exists, walVars>>

\* Collection::open on the same directory: a new handle replaces the old one
\* (a process restart); what the old handle held in memory is gone
CollectionOpen ==
    /\ nops < MaxOps
    /\ nops' = nops + 1
    /\ active_block' = FreshHandle.active_block
    /\ current_block_idx' = FreshHandle.current_block_idx
    /\ hist' = [i \in DOMAIN hist |->
                   IF hist[i].state = "pending"
                   THEN [hist[i] EXCEPT !.state = "lost"] ELSE hist[i]]
    /\ delrun' = NoRun
    /\ UNCHANGED <<now, file_exists, file_content, flush_threshold, compression,
                   dir_exists, written, walVars>>

InitHist ==
    [i \in DocIds |-> [inserts |-> 0, last |-> <<>>, state |-> "none",
                       deleted |-> FALSE, tomb |-> FALSE, clash |-> FALSE]]

\* Database.max_open_collections that Database::new sets
DefaultMaxOpenCollections == 100

\* no manager, an empty WAL directory
InitWalIdle ==
    /\ wal_files = EmptyMap
    /\ mgr_alive = FALSE
    /\ crashes = 0
    /\ recovers = 0
    /\ death = [torn |-> {}, cache |-> EmptyMap]
    /\ collections = {}
    /\ collection_wals = EmptyMap
    /\ first_key = NoKey
    /\ active_transactions = EmptyMap
    /\ entry_cache = EmptyMap
    /\ last_auto_checkpoint = 0
    /\ txs = <<>>
    /\ returned = EmptyMap
    /\ last_op = [op |-> "none", ret |-> "Ok", fresh |-> FALSE]
    /\ max_open_collections = DefaultMaxOpenCollections
    /\ wal_guard = 0
    /\ inflight = [t \in 1..MaxThreads |-> None]
    /\ arcs = [map |-> 0, held |-> [t \in 1..MaxThreads |-> 0]]

\* Collection::open on a directory that does not exist yet
InitCollection ==
    /\ file_exists = FALSE
    /\ file_content = <<>>
    /\ active_block = None
    /\ current_block_idx = 0
    /\ hist = InitHist
    /\ delrun = NoRun
    /\ written = {}

InitStore ==
    /\ now = 0
    /\ nops = 0
    /\ flush_threshold \in {FlushThresholdLow, FlushThresholdHigh}
    /\ compression \in {CompressionNone, CompressionZstd}
    /\ InitCollection
    /\ dir_exists = TRUE
    /\ InitWalIdle
    /\ checkpoint_interval = 0

NextStore ==
    \/ Tick
    \/ \E id \in DocIds, data \in DocValues : CollectionInsert(id, data)
    \/ \E id \in DocIds : CollectionDelete(id)
    \/ CollectionFlush
    \/ CollectionOpen

SpecStore == InitStore /\ [][NextStore]_vars

(***************************************************************************)
(* Actions on one BlockManager, called with any id                         *)
(* (crates/storage/src/manager.rs).                                        *)
(***************************************************************************)
\* "", "k"
RawIds == {<<>>, <<107>>}

\* BlockManager::insert(id, data); the call returns Ok(())
BlockManagerInsert(id, data) ==
    /\ nops < MaxOps
    /\ nops' = nops + 1
    /\ SetStore(insert(Store, id, data, now))
    /\ delrun' = NoRun
    /\ last_op' = [op |-> "insert", ret |-> "Ok", fresh |-> FALSE]
    /\ UNCHANGED <<now, flush_threshold, compression, dir_exists, hist,
                   wal_files, mgr_alive, crashes, recovers, death, collections,
                   checkpoint_interval, max_open_collections, collection_wals,
                   first_key, active_transactions, entry_cache,
                   last_auto_checkpoint, txs, returned, wal_guard, inflight,
                   arcs>>

InitBlocks ==
    /\ now = 0
    /\ nops = 0
    /\ flush_threshold \in {FlushThresholdLow, FlushThresholdHigh}
    /\ compression \in {CompressionNone, CompressionSnappy, CompressionZstd,
                         CompressionLz4}
    /\ InitCollection
    /\ dir_exists = TRUE
    /\ InitWalIdle
    /\ checkpoint_interval = 0

NextBlocks ==
    \/ Tick
    \/ \E id \in RawIds, data \in DocValues : BlockManagerInsert(id, data)
    \/ CollectionFlush
    \/ CollectionOpen

SpecBlocks == InitBlocks /\ [][NextBlocks]_vars

(***************************************************************************)
(* Actions of one Storage of the storage crate with the collection "users" *)
(* (crates/storage/src/storage.rs).                                        *)
(***************************************************************************)
\* the variables of the WAL manager and of the Database, but for last_op
idleVars == <<wal_files, mgr_alive, crashes, recovers, death,
              checkpoint_interval, max_open_collections, collection_wals,
              first_key, active_transactions, entry_cache,
              last_auto_checkpoint, txs, returned, wal_guard, inflight, arcs>>

\* Storage::open_collection(name)
StorageOpenCollection(name) ==
    /\ last_op' = [op |-> "open_collection", ret |-> "Ok", fresh |-> FALSE]
    /\ IF name \in collections
       THEN UNCHANGED <<collections, active_block, current_block_idx, dir_exists>>
       ELSE /\ collections' = collections \cup {name}
            /\ active_block' = FreshHandle.active_block
            /\ current_block_idx' = FreshHandle.current_block_idx
            /\ dir_exists' = TRUE
    /\ UNCHANGED <<now, nops, file_exists, file_content, flush_threshold,
                   compression, hist, delrun, written, idleVars>>

\* Storage::close_collection(name) upon the store: the collection leaves the
\* map and Collection::close flushes its active block
close_collection(st, open, name, clock) ==
    IF name \in open
    THEN [st |-> [flush(st, clock) EXCEPT !.active_block = None,
                                          !.current_block_idx = 0],
          open |-> open \ {name}]
    ELSE [st |-> st, open |-> open]

\* Storage::close_collection(name)
StorageCloseCollection(name) ==
    /\ last_op' = [op |-> "close_collection", ret |-> "Ok", fresh |-> FALSE]
    /\ SetStore(close_collection(Store, collections, name, now).st)
    /\ collections' = close_collection(Store, collections, name, now).open
    /\ hist' = IF name \in collections /\ active_block # None
               THEN MarkFlushed(hist) ELSE hist
    /\ delrun' = NoRun
    /\ UNCHANGED <<now, nops, flush_threshold, compression, dir_exists,
                   idleVars>>

\* drop_collection without its call of close_collection
StorageDropWithoutClose(name) ==
    /\ last_op' = [op |-> "drop_collection", ret |-> "Ok", fresh |-> FALSE]
    /\ dir_exists' = FALSE
    /\ file_exists' = FALSE
    /\ file_content' = <<>>
    /\ hist' = [i \in DOMAIN hist |->
                   IF hist[i].state # "none"
                   THEN [hist[i] EXCEPT !.state = "dropped"] ELSE hist[i]]
    /\ delrun' = NoRun
    /\ UNCHANGED <<now, nops, flush_threshold, compression, collections,
                   active_block, current_block_idx, written, idleVars>>

\* Storage::drop_collection(name): close_collection, then the directory is
\* removed with all it holds
StorageDropCollection(name) ==
    /\ last_op' = [op |-> "drop_collection", ret |-> "Ok", fresh |-> FALSE]
    /\ LET c == close_collection(Store, collections, name, now)
       IN  /\ collections' = c.open
           /\ active_block' = c.st.active_block
           /\ current_block_idx' = c.st.current_block_idx
           /\ written' = c.st.written
    /\ dir_exists' = FALSE
    /\ file_exists' = FALSE
    /\ file_content' = <<>>
    /\ hist' = [i \in DOMAIN hist |->
                   IF hist[i].state # "none"
                   THEN [hist[i] EXCEPT !.state = "dropped"] ELSE hist[i]]
    /\ delrun' = NoRun
    /\ UNCHANGED <<now, nops, flush_threshold, compression, idleVars>>

\* Collection::insert on the handle Storage::open_collection returned
StorageInsert(id, data) ==
    /\ Users \in collections
    /\ nops < MaxStorageOps
    /\ CollectionInsert(id, data)

\* Storage::open on a directory without collections
InitStorage ==
    /\ now = 0
    /\ nops = 0
    /\ flush_threshold \in {FlushThresholdLow, FlushThresholdHigh}
    /\ compression = CompressionNone
    /\ InitCollection
    /\ dir_exists = FALSE
    /\ InitWalIdle
    /\ checkpoint_interval = 0

NextStorage ==
    \/ StorageOpenCollection(Users)
    \/ StorageCloseCollection(Users)
    \/ StorageDropCollection(Users)
    \/ \E id \in DocIds, data \in DocValues : StorageInsert(id, data)

SpecStorage == InitStorage /\ [][NextStorage]_vars

(***************************************************************************)
(* Claims about one collection.                                            *)
(***************************************************************************)
Range(seq) == {seq[i] : i \in DOMAIN seq}

\* the caller stored a document under the tombstone id of id
Shadowed(id) ==
    TombstoneId(id) \in DocIds /\ hist[TombstoneId(id)].inserts > 0

\* C1: after insert(id, v) and a later flush on the same handle, get(id) returns
\* Some(v) on that handle and on a handle freshly opened on the directory,
\* for an id that was never deleted and whose last insert this is
C1_InsertFlushGet ==
    \A id \in DocIds :
        (hist[id].state = "flushed" /\ ~hist[id].deleted /\ ~hist[id].clash
            /\ ~Shadowed(id))
        => /\ CollectionGet(Handle, id) = Some(hist[id].last)
           /\ CollectionGet(FreshHandle, id) = Some(hist[id].last)

\* C5: newest wins: after insert(id, v1), insert(id, v2) and a flush, get(id)
\* returns v2
C5_NewestWins ==
    \A id \in DocIds :
        (hist[id].inserts >= 2 /\ hist[id].state = "flushed"
            /\ ~hist[id].deleted /\ ~hist[id].clash /\ ~Shadowed(id))
        => CollectionGet(Handle, id) = Some(hist[id].last)

\* C6: for an inserted id, two consecutive delete(id) calls return true then
\* false, and get(id) is absent after each of them
C6_DeleteIdempotence ==
    (delrun.rets # <<>> /\ delrun.live /\ ~Shadowed(delrun.id))
    => /\ delrun.rets[1] = TRUE
       /\ Len(delrun.rets) >= 2 => delrun.rets[2] = FALSE
       /\ CollectionGet(Handle, delrun.id) = None

\* C7: after insert(id, v) and a delete(id) that returned true, scan() does not
\* return id
C7_DeleteInvisibleInScan ==
    \A id \in DocIds :
        hist[id].tomb => id \notin Range(scan_document_ids(Handle))

RECURSIVE WalkPayload(_, _)
\* the linear walk of a payload from offset on, entry by entry: the number of
\* whole entries, and whether the walk ended inside an entry
WalkPayload(data, offset) ==
    IF offset >= Len(data) THEN [count |-> 0, partial |-> FALSE]
    ELSE LET entry == DocumentEntryFromBytes(Slice(data, offset, Len(data)))
         IN  IF entry = Err THEN [count |-> 0, partial |-> TRUE]
             ELSE LET rest == WalkPayload(
                                  data,
                                  offset + DocumentEntrySize(entry.value.id,
                                                             entry.value.data))
                  IN  [count |-> 1 + rest.count, partial |-> rest.partial]

C21_AppendOnly ==
    [][/\ \A slot \in written :
              Slice(file_content', slot.position, slot.position + slot.size)
                  = Slice(file_content, slot.position, slot.position + slot.size)
       /\ \A new \in written' \ written, old \in written :
              new.position >= old.position + old.size]_vars

\* C22: whenever the active block holds an entry with the id, find_document(id)
\* returns a value, the one the linear scan of the active block finds, whether
\* or not blocks.bin exists
C22_ReadYourWrites ==
    \A id \in DocIds :
        (/\ active_block # None
         /\ search_block_for_document(active_block.value, id) # None) =>
            find_document(Handle, id)
                = search_block_for_document(active_block.value, id)

\* C23: flush() with no active block or with an active block of doc_count 0
\* leaves blocks.bin (existence and content) and current_block_idx unchanged
C23_EmptyFlushNoIO ==
    [][(/\ CollectionFlush
        /\ \/ active_block = None
           \/ active_block.value.header.doc_count = 0) =>
           UNCHANGED <<file_exists, file_content, current_block_idx>>]_vars

C25_ScanHidesTombstones ==
    LET ids == scan_document_ids(Handle)
    IN  \A i \in DOMAIN ids :
            ~(StartsWith(ids[i], 95) /\ EndsWith(ids[i], 95))

\* an entry with the id "_k_" has been flushed to the file, another is in the
\* active block, and the scan returns something
C25_Witness ==
    /\ file_exists
    /\ \E p \in 0..(Len(file_content) - 5) :
           Slice(file_content, p, p + 5) = <<3, 0, 95, 107, 95>>
    /\ active_block # None
    /\ search_block_for_document(active_block.value, <<95, 107, 95>>) # None
    /\ scan_document_ids(Handle) # <<>>

\* C26: scan_ids returns only ids that were inserted, and an id that was
\* inserted exactly once and is still held (in the active block or in the file)
\* is returned exactly once
C26_ScanExact ==
    LET ids == scan_document_ids(Handle)
    IN  /\ \A i \in DOMAIN ids : ids[i] \in DocIds /\ hist[ids[i]].inserts > 0
        /\ \A id \in DocIds :
               (/\ ~(StartsWith(id, 95) /\ EndsWith(id, 95))
                /\ hist[id].inserts = 1
                /\ hist[id].state \in {"pending", "flushed"}) =>
                   Cardinality({i \in DOMAIN ids : ids[i] = id}) = 1

\* C33: every block a flush writes to blocks.bin carries, in the four bytes
\* after its payload, the 32-bit wrapping sum of its header fields (magic bytes,
\* version, compression code, doc_count, the low and high u32 halves of
\* uncompressed_size, compressed_size and created_at) and of its payload bytes,
\* a block of zero documents included
C33_FooterChecksum ==
    [][\A slot \in written' \ written :
         LET bytes == Slice(file_content', slot.position,
                            slot.position + slot.size)
             data_end == slot.size - BlockFooterSIZE
             sum == SumBytes(Slice(bytes, 0, 4)) + bytes[5] + bytes[6]
                        + U32(Slice(bytes, 6, 10))
                        + U32(Slice(bytes, 10, 14)) + U32(Slice(bytes, 14, 18))
                        + U32(Slice(bytes, 18, 22)) + U32(Slice(bytes, 22, 26))
                        + U32(Slice(bytes, 26, 30)) + U32(Slice(bytes, 30, 34))
                        + SumBytes(Slice(bytes, BlockHeaderSIZE, data_end))
         IN  Slice(bytes, data_end, data_end + 4) = U32Bytes(ToU32(sum))]_vars

\* C34: in every block a flush writes to blocks.bin, header.uncompressed_size
\* is the sum of the sizes of the entries of the payload as written, and
\* header.compressed_size is the number of payload bytes in the file
C34_HeaderSizes ==
    [][\A slot \in written' \ written :
         LET bytes == Slice(file_content', slot.position,
                            slot.position + slot.size)
             payload == Slice(bytes, BlockHeaderSIZE,
                              slot.size - BlockFooterSIZE)
         IN  /\ ~WalkPayload(payload, 0).partial
             /\ U64(Slice(bytes, 10, 18)) = Len(payload)
             /\ U64(Slice(bytes, 18, 26)) = Len(payload)]_vars

\* C37: deletion is permanent: right after a delete(id) that returned true
\* get(id) is absent, and no later operation (insert, delete, flush, reopen)
\* turns the get(id) of a deleted id from absent to a value
C37_DeletionPermanent ==
    [][\A id \in DocIds :
         /\ (hist'[id].tomb /\ ~hist[id].tomb) =>
                CollectionGet(Handle, id)' = None
         /\ (hist[id].tomb /\ CollectionGet(Handle, id) = None) =>
                CollectionGet(Handle, id)' = None]_vars

\* C38: insert(x, v) leaves get(y) as it was for every id y other than x, also
\* when x is '_' ++ y ++ '_'
C38_InsertLocal ==
    [][\A x \in DocIds, data \in DocValues :
         CollectionInsert(x, data) =>
             \A y \in DocIds \ {x} :
                 CollectionGet(Handle, y)' = CollectionGet(Handle, y)]_vars

\* C12: insert with an empty id returns an error and leaves the active block
\* and blocks.bin as they are
C12_EmptyIdRejected ==
    [][\A data \in DocValues :
           BlockManagerInsert(<<>>, data)
           => /\ last_op'.ret = "Err"
              /\ UNCHANGED <<active_block, file_exists, file_content>>]_vars

\* C15: Block::from_bytes of the bytes of a block succeeds and yields a block
\* with the same magic, version, compression, doc_count, sizes, created_at,
\* payload and footer, for every block the manager builds
C15_BlockRoundTrip ==
    active_block # None
    => BlockFromBytes(BlockToBytes(active_block.value)) = Ok(active_block.value)

\* a block with several entries, one of them with an empty id, and a
\* compression code other than None
C15_Witness ==
    /\ active_block # None
    /\ active_block.value.header.compression = CompressionLz4
    /\ active_block.value.header.doc_count >= 3
    /\ active_block.value.header.created_at > 0
    /\ BlockFromBytes(BlockToBytes(active_block.value)) # Err

\* C16: DocumentEntry::from_bytes of the bytes of an entry with a non-empty id
\* returns the id and the data of the entry, also when more entries follow in
\* the buffer, and fails on every buffer that ends before the entry does
C16_EntryRoundTrip ==
    /\ \A id \in DocIds, data \in DocValues \cup {<<>>} :
           LET bytes == DocumentEntryToBytes(id, data)
           IN  /\ DocumentEntryFromBytes(bytes) = Ok([id |-> id, data |-> data])
               /\ \A n \in 0..(Len(bytes) - 1) :
                      DocumentEntryFromBytes(SubSeq(bytes, 1, n)) = Err
    /\ (active_block # None /\ active_block.value.data # <<>>)
       => LET payload == active_block.value.data
              first == DocumentEntryFromBytes(payload)
          IN  /\ first # Err
              /\ LET bytes == DocumentEntryToBytes(first.value.id, first.value.data)
                 IN  SubSeq(payload, 1, Len(bytes)) = bytes

\* the active block holds an entry with a non-empty id, followed by another
\* entry
C16_Witness ==
    /\ active_block # None
    /\ active_block.value.header.doc_count >= 2
    /\ DocumentEntryFromBytes(active_block.value.data) # Err
    /\ DocumentEntryFromBytes(active_block.value.data).value.id = <<107>>

(***************************************************************************)
(* Actions on one WalManager over one WAL directory                        *)
(* (crates/wal/src/manager.rs).                                            *)
(***************************************************************************)
\* "a", "b" and the document data "v1"
WalDocIds == {<<97>>, <<98>>}
WalValue == <<118, 49>>

SetWorld(w) ==
    /\ wal_files' = w.files
    /\ collection_wals' = w.cw
    /\ first_key' = w.first
    /\ active_transactions' = w.at
    /\ entry_cache' = w.ec
    /\ last_auto_checkpoint' = w.lac

\* the transactions the dying process had open are never finished
LoseActive(t) ==
    [i \in DOMAIN t |->
        IF t[i].state = "active" THEN [t[i] EXCEPT !.state = "lost"] ELSE t[i]]

\* the process ends (kill, power loss, stack exhaustion): the files stay, the
\* manager and everything it held in memory is gone
Die(files, torn) ==
    /\ wal_files' = files
    /\ death' = [torn |-> torn, cache |-> entry_cache]
    /\ mgr_alive' = FALSE
    /\ collection_wals' = EmptyMap
    /\ first_key' = NoKey
    /\ active_transactions' = EmptyMap
    /\ entry_cache' = EmptyMap
    /\ last_auto_checkpoint' = 0
    /\ txs' = LoseActive(txs)
    /\ returned' = EmptyMap
    /\ crashes' = crashes + 1
    /\ UNCHANGED recovers

\* the outcome r of a manager operation that touches no transaction
Outcome(op, r) ==
    /\ last_op' = [op |-> op, ret |-> r.ret, fresh |-> FALSE]
    /\ IF r.ret = "overflow" THEN Die(r.w.files, {})
       ELSE /\ SetWorld(r.w)
            /\ UNCHANGED <<mgr_alive, txs, returned, crashes, recovers, death>>

\* an operation of the running manager
WalStep ==
    /\ mgr_alive
    /\ UNCHANGED <<now, storeVars, wal_guard, inflight, arcs, checkpoint_interval, max_open_collections,
                   collections>>

\* a non-transactional append
PlainStep ==
    /\ WalStep
    /\ nops < MaxWalOps
    /\ nops' = nops + 1

\* WalManager::new
MgrNew ==
    /\ ~mgr_alive
    /\ mgr_alive' = TRUE
    /\ SetWorld(NewWorld(wal_files, now))
    /\ returned' = EmptyMap
    /\ recovers' = 0
    /\ last_op' = [op |-> "new", ret |-> "Ok", fresh |-> TRUE]
    /\ UNCHANGED <<now, nops, storeVars, wal_guard, inflight, arcs, checkpoint_interval,
                   max_open_collections, txs, crashes, death, collections>>

\* WalManager::recover
MgrRecover ==
    /\ WalStep
    /\ UNCHANGED nops
    /\ recovers < MaxRecovers
    /\ recovers' = recovers + 1
    /\ \E order \in DirOrders(wal_files),
          firsts \in SUBSET (DOMAIN wal_files \ DOMAIN collection_wals) :
           LET r == RecoverFiles(World, order, now, firsts)
           IN  /\ SetWorld(r.w)
               /\ last_op' = [op |-> "recover", ret |-> r.ret,
                              fresh |-> last_op.op = "new"]
    /\ UNCHANGED <<mgr_alive, txs, returned, crashes, death>>

\* WalManager::insert
MgrInsert(name, document_id, takeFirst) ==
    /\ PlainStep
    /\ Outcome("insert", WalWrite(World, Insert, name, document_id, WalValue,
                                  now, takeFirst))

\* WalManager::update
MgrUpdate(name, document_id, takeFirst) ==
    /\ PlainStep
    /\ Outcome("update", WalWrite(World, Update, name, document_id, WalValue,
                                  now, takeFirst))

\* WalManager::delete
MgrDelete(name, document_id, takeFirst) ==
    /\ PlainStep
    /\ Outcome("delete", WalWrite(World, Delete, name, document_id, <<>>,
                                  now, takeFirst))

\* WalManager::insert of a document of BigPayloadLen bytes
MgrInsertBig(name, document_id, takeFirst) ==
    /\ PlainStep
    /\ Outcome("insert", WalWrite(World, Insert, name, document_id,
                                  [i \in 1..BigPayloadLen |-> 7], now, takeFirst))

\* WalManager::checkpoint
MgrCheckpoint(name, takeFirst) ==
    /\ PlainStep
    /\ Outcome("checkpoint", checkpoint(World, name, now, takeFirst))

\* WalManager::begin_transaction
MgrBegin ==
    /\ WalStep
    /\ UNCHANGED nops
    /\ Len(txs) < MaxBegins
    /\ LET r == begin_transaction(World, now)
       IN  /\ last_op' = [op |-> "begin", ret |-> r.ret, fresh |-> FALSE]
           /\ IF r.ret = "overflow" THEN Die(r.w.files, {})
              ELSE /\ SetWorld(r.w)
                   /\ txs' = Append(txs, [id |-> r.tx_id, state |-> "active",
                                          writes |-> {}])
                   /\ returned' = Put(returned, r.tx_id,
                                      IF r.tx_id \in DOMAIN returned
                                      THEN returned[r.tx_id] + 1 ELSE 1)
                   /\ UNCHANGED <<mgr_alive, crashes, recovers, death>>

\* a write under the transaction the i-th begin_transaction started
TxWrite(op, i, entry_type, name, document_id, data, takeFirst) ==
    /\ WalStep
    /\ UNCHANGED nops
    /\ txs[i].state = "active"
    /\ Cardinality(txs[i].writes) < MaxTxWrites
    /\ LET r == WriteInTransaction(World, entry_type, txs[i].id, name,
                                   document_id, data, now, takeFirst)
       IN  /\ last_op' = [op |-> op, ret |-> r.ret, fresh |-> FALSE]
           /\ IF r.ret = "overflow" THEN Die(r.w.files, {})
              ELSE /\ SetWorld(r.w)
                   /\ txs' = IF r.ret = "Ok"
                             THEN [txs EXCEPT ![i].writes =
                                      @ \cup {[name |-> name,
                                               document_id |-> document_id,
                                               position |-> r.position]}]
                             ELSE txs
                   /\ UNCHANGED <<mgr_alive, returned, crashes, recovers, death>>

\* WalManager::insert_in_transaction
MgrInsertInTx(i, name, document_id, takeFirst) ==
    TxWrite("insert_in_transaction", i, Insert, name, document_id, WalValue,
            takeFirst)

\* WalManager::update_in_transaction
MgrUpdateInTx(i, name, document_id, takeFirst) ==
    TxWrite("update_in_transaction", i, Update, name, document_id, WalValue,
            takeFirst)

\* WalManager::delete_in_transaction
MgrDeleteInTx(i, name, document_id, takeFirst) ==
    TxWrite("delete_in_transaction", i, Delete, name, document_id, <<>>,
            takeFirst)

\* the end of the transaction the i-th begin_transaction started
TxFinish(op, i, entry_type, state) ==
    /\ WalStep
    /\ UNCHANGED nops
    /\ txs[i].state = "active"
    /\ LET r == FinishTransaction(World, entry_type, txs[i].id, now)
       IN  /\ last_op' = [op |-> op, ret |-> r.ret, fresh |-> FALSE]
           /\ IF r.ret = "overflow" THEN Die(r.w.files, {})
              ELSE /\ SetWorld(r.w)
                   /\ txs' = IF r.ret = "Ok"
                             THEN [txs EXCEPT ![i].state = state]
                             ELSE [txs EXCEPT ![i].state = "refused"]
                   /\ UNCHANGED <<mgr_alive, returned, crashes, recovers, death>>

\* WalManager::commit_transaction
MgrCommit(i) == TxFinish("commit_transaction", i, CommitTx, "committed")

\* WalManager::abort_transaction
MgrAbort(i) == TxFinish("abort_transaction", i, AbortTx, "aborted")

\* the process is killed between two operations
Crash ==
    /\ WalStep
    /\ UNCHANGED nops
    /\ crashes < MaxCrashes
    /\ Die(wal_files, {})
    /\ last_op' = [op |-> "crash", ret |-> "Ok", fresh |-> FALSE]

\* the power fails while WalLog::append writes the entry of WalManager::insert:
\* the first cut bytes of the entry reach the file
CrashDuringAppend(name, document_id, cut, takeFirst) ==
    /\ PlainStep
    /\ LET g == get_or_create_wal(World, name, now, takeFirst)
           bytes == WalEntryToBytes(
                        WalEntryNew(Insert, CollectionIds[name], 0,
                                    document_id, WalValue, now))
           position == g.w.cw[name].position
       IN  /\ cut < Len(bytes)
           /\ crashes < MaxCrashes
           /\ IF g.overflow THEN Die(g.w.files, {})
              ELSE Die([g.w.files EXCEPT ![name] =
                           WriteAt(@, position, SubSeq(bytes, 1, cut))], {name})
           /\ last_op' = [op |-> "torn", ret |-> IF g.overflow THEN "overflow"
                                                 ELSE "Ok",
                          fresh |-> FALSE]

\* the cuts: inside the header, and one byte short of the whole entry
TornCuts == {TornHeaderCut, EntryHeaderFIXED_SIZE - 2 + 1 + Len(WalValue) - 1}

InitWal ==
    /\ now = 0
    /\ nops = 0
    /\ flush_threshold = FlushThresholdLow
    /\ compression = CompressionNone
    /\ InitCollection
    /\ dir_exists = TRUE
    /\ InitWalIdle
    /\ checkpoint_interval \in {0, CheckpointIntervalOn}

\* non-transactional use of the manager
NextWal ==
    \/ Tick
    \/ MgrNew
    \/ MgrRecover
    \/ \E name \in WalNames, id \in WalDocIds, takeFirst \in BOOLEAN :
           \/ MgrInsert(name, id, takeFirst)
           \/ MgrUpdate(name, id, takeFirst)
           \/ MgrDelete(name, id, takeFirst)
    \/ \E name \in WalNames, takeFirst \in BOOLEAN :
           MgrInsertBig(name, <<97>>, takeFirst)
    \/ \E name \in WalNames, takeFirst \in BOOLEAN : MgrCheckpoint(name, takeFirst)
    \/ Crash
    \/ \E name \in WalNames, id \in WalDocIds, cut \in TornCuts,
          takeFirst \in BOOLEAN :
           CrashDuringAppend(name, id, cut, takeFirst)

SpecWal == InitWal /\ [][NextWal]_vars

InitTx ==
    /\ InitWal
    /\ checkpoint_interval = 0

\* transactional use of the manager
NextTx ==
    \/ MgrNew
    \/ MgrRecover
    \/ MgrBegin
    \/ \E i \in DOMAIN txs, name \in WalNames, id \in WalDocIds,
          takeFirst \in BOOLEAN :
           \/ MgrInsertInTx(i, name, id, takeFirst)
           \/ MgrUpdateInTx(i, name, id, takeFirst)
           \/ MgrDeleteInTx(i, name, id, takeFirst)
    \/ \E i \in DOMAIN txs : MgrCommit(i) \/ MgrAbort(i)
    \/ Crash

SpecTx == InitTx /\ [][NextTx]_vars

\* every write of a manager that does not crash, with checkpoint_interval = 0
NextWalTx ==
    \/ Tick
    \/ MgrNew
    \/ \E name \in WalNames, id \in {<<97>>}, takeFirst \in BOOLEAN :
           \/ MgrInsert(name, id, takeFirst)
           \/ MgrUpdate(name, id, takeFirst)
           \/ MgrDelete(name, id, takeFirst)
    \/ \E name \in WalNames, takeFirst \in BOOLEAN : MgrCheckpoint(name, takeFirst)
    \/ Len(txs) < FewBegins /\ MgrBegin
    \/ \E i \in DOMAIN txs, name \in WalNames, id \in {<<97>>},
          takeFirst \in BOOLEAN :
           \/ MgrInsertInTx(i, name, id, takeFirst)
           \/ MgrUpdateInTx(i, name, id, takeFirst)
           \/ MgrDeleteInTx(i, name, id, takeFirst)
    \/ \E i \in DOMAIN txs : MgrCommit(i) \/ MgrAbort(i)

SpecWalTx == InitTx /\ [][NextWalTx]_vars

\* insert_in_transaction, update_in_transaction and delete_in_transaction
\* called with an id that is not a key of active_transactions
MgrWriteUnknownTx(tx_id, entry_type, name, document_id, takeFirst) ==
    /\ WalStep
    /\ UNCHANGED nops
    /\ tx_id \notin DOMAIN active_transactions
    /\ Outcome(CASE entry_type = Insert -> "insert_in_transaction"
                 [] entry_type = Update -> "update_in_transaction"
                 [] OTHER -> "delete_in_transaction",
               WriteInTransaction(World, entry_type, tx_id, name, document_id,
                                  IF entry_type = Delete THEN <<>> ELSE WalValue,
                                  now, takeFirst))

\* commit_transaction and abort_transaction called with an id that is not a
\* key of active_transactions
MgrFinishUnknownTx(tx_id, entry_type) ==
    /\ WalStep
    /\ UNCHANGED nops
    /\ tx_id \notin DOMAIN active_transactions
    /\ Outcome(IF entry_type = CommitTx THEN "commit_transaction"
               ELSE "abort_transaction",
               FinishTransaction(World, entry_type, tx_id, now))

\* transactional use of one manager by a caller that also passes ids the
\* manager does not hold
NextTxCalls ==
    \/ MgrNew
    \/ MgrBegin
    \/ \E i \in DOMAIN txs, name \in WalNames, id \in WalDocIds,
          takeFirst \in BOOLEAN :
           \/ MgrInsertInTx(i, name, id, takeFirst)
           \/ MgrUpdateInTx(i, name, id, takeFirst)
           \/ MgrDeleteInTx(i, name, id, takeFirst)
    \/ \E i \in DOMAIN txs : MgrCommit(i) \/ MgrAbort(i)
    \/ \E tx_id \in (1..MaxTxId), entry_type \in {Insert, Update, Delete},
          name \in WalNames, id \in WalDocIds, takeFirst \in BOOLEAN :
           MgrWriteUnknownTx(tx_id, entry_type, name, id, takeFirst)
    \/ \E tx_id \in (1..MaxTxId), entry_type \in {CommitTx, AbortTx} :
           MgrFinishUnknownTx(tx_id, entry_type)

SpecTxCalls == InitTx /\ [][NextTxCalls]_vars

(***************************************************************************)
(* Actions of one Database with the collection "users" (src/database.rs,   *)
(* src/storage.rs, src/interfaces/cli.rs).                                 *)
(***************************************************************************)
\* WalConfig.checkpoint_interval that Database::new sets
DatabaseCheckpointInterval == 60

\* Database::new
DatabaseNew ==
    /\ ~mgr_alive
    /\ mgr_alive' = TRUE
    /\ SetWorld(NewWorld(wal_files, now))
    /\ returned' = EmptyMap
    /\ recovers' = 0
    /\ max_open_collections' = DefaultMaxOpenCollections
    /\ last_op' = [op |-> "new", ret |-> "Ok", fresh |-> TRUE]
    /\ UNCHANGED <<now, nops, storeVars, wal_guard, inflight, arcs, checkpoint_interval, txs, crashes,
                   death, collections>>

\* Database::configure(max_collections, true)
DatabaseConfigure(max_collections) ==
    /\ mgr_alive
    /\ max_open_collections' = max_collections
    /\ last_op' = [op |-> "configure", ret |-> "Ok", fresh |-> FALSE]
    /\ UNCHANGED <<now, nops, storeVars, wal_guard, inflight, arcs, wal_files, mgr_alive, crashes,
                   recovers, death, collections, checkpoint_interval,
                   collection_wals, first_key, active_transactions,
                   entry_cache, last_auto_checkpoint, txs, returned>>

\* Database::open_collection(name): the limit of open collections is tested
\* first, then whether the collection is open already; otherwise
\* WalManager::recover, whose error is printed and dropped, then
\* Collection::open
DatabaseOpenCollection(name) ==
    /\ mgr_alive
    /\ IF Cardinality(collections) >= max_open_collections
          \/ name \in collections
       THEN /\ last_op' = [op |-> "open_collection",
                           ret |-> IF Cardinality(collections)
                                          >= max_open_collections
                                   THEN "Err" ELSE "Ok",
                           fresh |-> FALSE]
            /\ UNCHANGED <<collections, wal_files, collection_wals, first_key,
                           active_transactions, entry_cache,
                           last_auto_checkpoint, active_block,
                           current_block_idx, dir_exists, arcs>>
       ELSE /\ wal_guard = 0
            /\ collections' = collections \cup {name}
            /\ arcs' = [arcs EXCEPT !.map =
                            CHOOSE i \in 1..(MaxThreads + 1) :
                                \A t \in 1..MaxThreads : arcs.held[t] # i]
            /\ \E order \in DirOrders(wal_files),
                  firsts \in SUBSET (DOMAIN wal_files \ DOMAIN collection_wals) :
                   LET r == RecoverFiles(World, order, now, firsts)
                   IN  /\ SetWorld(r.w)
                       /\ last_op' = [op |-> "open_collection", ret |-> "Ok",
                                      fresh |-> FALSE]
            /\ active_block' = FreshHandle.active_block
            /\ current_block_idx' = FreshHandle.current_block_idx
            /\ dir_exists' = TRUE
    /\ UNCHANGED <<now, nops, file_exists, file_content, flush_threshold,
                   compression, hist, delrun, written, mgr_alive, crashes,
                   recovers, death, checkpoint_interval, max_open_collections,
                   txs, returned, wal_guard, inflight>>

\* Database::close_collection(name) for an open collection: the Arc is taken
\* out of Database.collections and Collection::close flushes; the Collection
\* lives on in every clone of the Arc that get_collection handed out
DatabaseCloseCollection(name) ==
    /\ mgr_alive
    /\ name \in collections
    /\ collections' = collections \ {name}
    /\ file_exists' = flush(Store, now).exists
    /\ file_content' = flush(Store, now).content
    /\ written' = flush(Store, now).written
    /\ active_block' = None
    /\ current_block_idx' = 0
    /\ hist' = IF active_block # None THEN MarkFlushed(hist) ELSE hist
    /\ delrun' = NoRun
    /\ arcs' = [arcs EXCEPT !.map = 0]
    /\ last_op' = [op |-> "close_collection", ret |-> "Ok", fresh |-> FALSE]
    /\ UNCHANGED <<now, nops, flush_threshold, compression, dir_exists,
                   wal_files, mgr_alive, crashes, recovers, death,
                   checkpoint_interval, max_open_collections,
                   collection_wals, first_key, active_transactions,
                   entry_cache, last_auto_checkpoint, txs, returned,
                   wal_guard, inflight>>

\* CliInterface::insert_document on the open collection
CliInsertDocument(id, data) ==
    /\ mgr_alive
    /\ Users \in collections
    /\ nops < MaxDbOps
    /\ CollectionInsert(id, data)

\* CliInterface::delete_document on the open collection
CliDeleteDocument(id) ==
    /\ mgr_alive
    /\ Users \in collections
    /\ nops < MaxDbOps
    /\ CollectionDelete(id)

\* Storage::insert_document: Database::get_collection_mut returns None, the
\* call returns the error "Collection not found"
StorageInsertDocument(id, data) ==
    /\ mgr_alive
    /\ last_op' = [op |-> "storage_insert_document", ret |-> "Err",
                   fresh |-> FALSE]
    /\ UNCHANGED <<now, nops, storeVars, wal_guard, inflight, arcs, wal_files, mgr_alive, crashes,
                   recovers, death, collections, checkpoint_interval,
                   max_open_collections, collection_wals, first_key,
                   active_transactions, entry_cache, last_auto_checkpoint,
                   txs, returned>>

\* Database::begin_transaction, commit_transaction and abort_transaction with
\* use_transactions set
DatabaseBeginTransaction == Len(txs) < MaxDbBegins /\ MgrBegin
DatabaseCommitTransaction(i) == MgrCommit(i)
DatabaseAbortTransaction(i) == MgrAbort(i)

\* the process is killed: the database, its manager and the collection handle
\* are gone
DatabaseCrash ==
    /\ mgr_alive
    /\ crashes < MaxCrashes
    /\ Die(wal_files, {})
    /\ collections' = {}
    /\ active_block' = None
    /\ current_block_idx' = 0
    /\ hist' = [i \in DOMAIN hist |->
                   IF hist[i].state = "pending"
                   THEN [hist[i] EXCEPT !.state = "lost"] ELSE hist[i]]
    /\ delrun' = NoRun
    /\ arcs' = [map |-> 0, held |-> [t \in 1..MaxThreads |-> 0]]
    /\ last_op' = [op |-> "crash", ret |-> "Ok", fresh |-> FALSE]
    /\ UNCHANGED <<now, nops, file_exists, file_content, flush_threshold,
                   compression, dir_exists, written, checkpoint_interval,
                   max_open_collections, wal_guard, inflight>>

InitDb ==
    /\ now = 0
    /\ nops = 0
    /\ flush_threshold \in {FlushThresholdLow, FlushThresholdHigh}
    /\ compression = CompressionNone
    /\ InitCollection
    /\ dir_exists = FALSE
    /\ InitWalIdle
    /\ checkpoint_interval = DatabaseCheckpointInterval

NextDb ==
    \/ DatabaseNew
    \/ \E max_collections \in {FewOpenCollections, DefaultMaxOpenCollections} :
           DatabaseConfigure(max_collections)
    \/ DatabaseOpenCollection(Users)
    \/ DatabaseCloseCollection(Users)
    \/ \E id \in DocIds, data \in DocValues : CliInsertDocument(id, data)
    \/ \E id \in DocIds : CliDeleteDocument(id)
    \/ \E id \in DocIds, data \in DocValues : StorageInsertDocument(id, data)
    \/ DatabaseBeginTransaction
    \/ \E i \in DOMAIN txs : DatabaseCommitTransaction(i)
    \/ \E i \in DOMAIN txs : DatabaseAbortTransaction(i)
    \/ DatabaseCrash

SpecDb == InitDb /\ [][NextDb]_vars

(***************************************************************************)
(* Threads that share one Database (src/database.rs): every thread owns a  *)
(* clone, the clones share the Arc<RwLock<WalManager>> and the map of      *)
(* Arc<Mutex<Collection>>.  A call on the manager is three steps of its    *)
(* thread: write() on the lock, the append to the log file, and the update *)
(* of the manager's fields with the return that drops the guard.           *)
(***************************************************************************)
\* RwLock::read in place of write: the guard is handed out whoever holds it
WalManagerRead(t) ==
    /\ mgr_alive
    /\ nops < MaxSharedCalls
    /\ nops' = nops + 1
    /\ inflight[t] = None
    /\ wal_guard' = t
    /\ inflight' = [inflight EXCEPT ![t] = Some([stage |-> "locked"])]
    /\ UNCHANGED <<now, storeVars, wal_files, mgr_alive, crashes, recovers,
                   death, collections, checkpoint_interval,
                   max_open_collections, collection_wals, first_key,
                   active_transactions, entry_cache, last_auto_checkpoint,
                   txs, returned, last_op, arcs>>

\* wal.write() by a thread that is in no call: it returns once no thread
\* holds the guard
WalManagerWrite(t) ==
    /\ mgr_alive
    /\ nops < MaxSharedCalls
    /\ nops' = nops + 1
    /\ inflight[t] = None
    /\ wal_guard = 0
    /\ wal_guard' = t
    /\ inflight' = [inflight EXCEPT ![t] = Some([stage |-> "locked"])]
    /\ UNCHANGED <<now, storeVars, wal_files, mgr_alive, crashes, recovers,
                   death, collections, checkpoint_interval,
                   max_open_collections, collection_wals, first_key,
                   active_transactions, entry_cache, last_auto_checkpoint,
                   txs, returned, last_op, arcs>>

\* the call of the thread, through its guard, up to and including
\* WalLog::append; r is what the call makes of the manager it finds
GuardedAppend(t, r) ==
    /\ inflight[t] # None
    /\ inflight[t].value.stage = "locked"
    /\ r.ret # "overflow"
    /\ wal_files' = r.w.files
    /\ inflight' = [inflight EXCEPT
                       ![t] = Some([stage |-> "appended", ret |-> r.ret,
                                    w |-> r.w])]
    /\ UNCHANGED <<now, nops, storeVars, mgr_alive, crashes, recovers, death,
                   collections, checkpoint_interval, max_open_collections,
                   collection_wals, first_key, active_transactions,
                   entry_cache, last_auto_checkpoint, txs, returned, last_op,
                   wal_guard, arcs>>

\* the rest of the call: the position of the log, entry_cache and
\* active_transactions are updated, the call returns and the guard is dropped
GuardedReturn(t) ==
    /\ inflight[t] # None
    /\ inflight[t].value.stage = "appended"
    /\ collection_wals' = inflight[t].value.w.cw
    /\ first_key' = inflight[t].value.w.first
    /\ active_transactions' = inflight[t].value.w.at
    /\ entry_cache' = inflight[t].value.w.ec
    /\ last_auto_checkpoint' = inflight[t].value.w.lac
    /\ wal_guard' = 0
    /\ inflight' = [inflight EXCEPT ![t] = None]
    /\ last_op' = [op |-> "shared", ret |-> inflight[t].value.ret,
                   fresh |-> FALSE, thread |-> t]
    /\ UNCHANGED <<now, nops, storeVars, wal_files, mgr_alive, crashes,
                   recovers, death, collections, checkpoint_interval,
                   max_open_collections, txs, returned, arcs>>

\* Database::get_collection(name) of an open collection: the thread keeps the
\* clone of the Arc it is given
DatabaseGetCollection(t) ==
    /\ mgr_alive
    /\ arcs.map # 0
    /\ arcs' = [arcs EXCEPT !.held[t] = arcs.map]
    /\ UNCHANGED <<now, nops, storeVars, wal_files, mgr_alive, crashes,
                   recovers, death, collections, checkpoint_interval,
                   max_open_collections, collection_wals, first_key,
                   active_transactions, entry_cache, last_auto_checkpoint,
                   txs, returned, last_op, wal_guard, inflight>>

NextThreads ==
    \/ DatabaseNew
    \/ DatabaseOpenCollection(Users)
    \/ DatabaseCloseCollection(Users)
    \/ \E t \in 1..MaxThreads : DatabaseGetCollection(t)
    \/ \E t \in 1..MaxThreads : WalManagerWrite(t)
    \/ \E t \in 1..MaxThreads, entry_type \in {Insert, Update, Delete},
          id \in WalDocIds, takeFirst \in BOOLEAN :
           GuardedAppend(t, WalWrite(World, entry_type, Users, id,
                                     IF entry_type = Delete THEN <<>>
                                     ELSE WalValue,
                                     now, takeFirst))
    \/ \E t \in 1..MaxThreads : GuardedAppend(t, begin_transaction(World, now))
    \/ \E t \in 1..MaxThreads, tx_id \in 1..MaxTxId,
          entry_type \in {CommitTx, AbortTx} :
           GuardedAppend(t, FinishTransaction(World, entry_type, tx_id, now))
    \/ \E t \in 1..MaxThreads : GuardedReturn(t)

SpecThreads == InitDb /\ [][NextThreads]_vars

(***************************************************************************)
(* Actions on one WalLog, the log users.wal (crates/wal/src/log.rs).       *)
(* collection_wals[Users].position holds WalLog.position.                  *)
(***************************************************************************)
\* WalLog::read_at on a log with the given content and position field
read_at(file, cursor, position) ==
    IF position < WAL_HEADER_SIZE \/ position >= cursor THEN Err
    ELSE LET buffer == Slice(file, position,
                             Min(position + WAL_BUFFER_SIZE, Len(file)))
         IN  IF Len(buffer) = 0 THEN Err
             ELSE LET r == WalEntryFromBytes(buffer)
                  IN  IF r = Err THEN Err ELSE Ok(r.value.entry)

\* WalLog::append without the advance of the position field
WalLogAppendNoAdvance(entry) ==
    LET bytes == WalEntryToBytes(entry)
        entry_pos == collection_wals[Users].position
    IN  /\ nops < MaxLogAppends
        /\ nops' = nops + 1
        /\ wal_files' = [wal_files EXCEPT
                            ![Users] = WriteAt(@, entry_pos, bytes)]
        /\ last_op' = [op |-> "append", ret |-> "Ok", position |-> entry_pos,
                       entry |-> entry]
        /\ UNCHANGED <<now, storeVars, wal_guard, inflight, arcs, mgr_alive, crashes, recovers, death,
                       collections, checkpoint_interval, max_open_collections,
                       collection_wals, first_key, active_transactions,
                       entry_cache, last_auto_checkpoint, txs, returned>>

\* WalLog::append(entry)
WalLogAppend(entry) ==
    LET bytes == WalEntryToBytes(entry)
        entry_pos == collection_wals[Users].position
    IN  /\ nops < MaxLogAppends
        /\ nops' = nops + 1
        /\ wal_files' = [wal_files EXCEPT
                            ![Users] = WriteAt(@, entry_pos, bytes)]
        /\ collection_wals' = [collection_wals EXCEPT
                                  ![Users].position = entry_pos + Len(bytes)]
        /\ last_op' = [op |-> "append", ret |-> "Ok", position |-> entry_pos,
                       entry |-> entry]
        /\ UNCHANGED <<now, storeVars, wal_guard, inflight, arcs, mgr_alive, crashes, recovers, death,
                       collections, checkpoint_interval, max_open_collections,
                       first_key, active_transactions, entry_cache,
                       last_auto_checkpoint, txs, returned>>

\* WalLog::read_at(position)
WalLogReadAt(position) ==
    LET r == read_at(wal_files[Users], collection_wals[Users].position, position)
    IN  /\ last_op' = [op |-> "read_at", ret |-> r.tag, position |-> position,
                       entry |-> r]
        /\ UNCHANGED <<now, nops, storeVars, wal_guard, inflight, arcs, wal_files, mgr_alive, crashes,
                       recovers, death, collections, checkpoint_interval,
                       max_open_collections, collection_wals, first_key,
                       active_transactions, entry_cache, last_auto_checkpoint,
                       txs, returned>>

\* WalLog::close followed by WalLog::open on the same file: the preamble is
\* verified and the position field becomes the size of the file
WalLogOpen ==
    LET file == wal_files[Users]
        valid == /\ Len(file) >= WAL_HEADER_SIZE
                 /\ Slice(file, 0, 4) = WAL_MAGIC
                 /\ file[5] = WAL_FORMAT_VERSION
    IN  /\ recovers < MaxRecovers
        /\ recovers' = recovers + 1
        /\ collection_wals' = IF valid
                              THEN [collection_wals EXCEPT
                                       ![Users].position = Len(file)]
                              ELSE collection_wals
        /\ last_op' = [op |-> "open", ret |-> IF valid THEN "Ok" ELSE "Err",
                       position |-> 0, entry |-> None]
        /\ UNCHANGED <<now, nops, storeVars, wal_guard, inflight, arcs, wal_files, mgr_alive, crashes,
                       death, collections, checkpoint_interval,
                       max_open_collections, first_key, active_transactions,
                       entry_cache, last_auto_checkpoint, txs, returned>>

\* the file is damaged outside the program, once: the first byte of the first
\* entry's magic is zeroed ("magic"), the last payload byte changes
\* ("checksum"), or the process died in an append that lost its last byte and
\* the log is opened again ("torn")
WalLogDamage(kind) ==
    LET file == wal_files[Users]
        n == Len(file)
    IN  /\ crashes < MaxCrashes
        /\ n > WAL_HEADER_SIZE
        /\ crashes' = crashes + 1
        /\ wal_files' = [wal_files EXCEPT ![Users] =
                            CASE kind = "magic" ->
                                     WriteAt(file, WAL_HEADER_SIZE, <<0>>)
                              [] kind = "checksum" ->
                                     WriteAt(file, n - 1, <<(file[n] + 1) % 256>>)
                              [] OTHER -> SubSeq(file, 1, n - 1)]
        /\ collection_wals' = IF kind = "torn"
                              THEN [collection_wals EXCEPT
                                       ![Users].position = n - 1]
                              ELSE collection_wals
        /\ last_op' = [op |-> kind, ret |-> "Ok", position |-> 0, entry |-> None]
        /\ UNCHANGED <<now, nops, storeVars, wal_guard, inflight, arcs, mgr_alive, recovers, death,
                       collections, checkpoint_interval, max_open_collections,
                       first_key, active_transactions, entry_cache,
                       last_auto_checkpoint, txs, returned>>

\* WalIterator::next that seeks back to the entry it failed to decode
WalIteratorNextRetry(file, it) ==
    IF it.position >= it.end_position THEN [it |-> it, item |-> "None"]
    ELSE LET bytes_read == Min(it.buffer_len, Len(file) - it.cursor)
             parsed == WalEntryFromBytes(Slice(file, it.cursor,
                                               it.cursor + bytes_read))
         IN  IF bytes_read = 0 THEN [it |-> it, item |-> "None"]
             ELSE IF parsed = Err
             THEN [it |-> [it EXCEPT !.cursor = it.position,
                                     !.buffer_len = bytes_read],
                   item |-> "Err"]
             ELSE [it |-> [it EXCEPT !.position = @ + parsed.value.consumed,
                                     !.cursor = it.position + parsed.value.consumed,
                                     !.buffer_len = bytes_read],
                   item |-> "Ok"]

\* WalIterator::next on an iterator [position, end_position, cursor,
\* buffer_len], cursor being the offset of the file handle and buffer_len the
\* length the buffer was truncated to: the iterator after the call and the
\* kind of item returned
WalIteratorNext(file, it) ==
    IF it.position >= it.end_position THEN [it |-> it, item |-> "None"]
    ELSE LET bytes_read == Min(it.buffer_len, Len(file) - it.cursor)
             parsed == WalEntryFromBytes(Slice(file, it.cursor,
                                               it.cursor + bytes_read))
         IN  IF bytes_read = 0 THEN [it |-> it, item |-> "None"]
             ELSE IF parsed = Err
             THEN [it |-> [it EXCEPT !.cursor = @ + bytes_read,
                                     !.buffer_len = bytes_read],
                   item |-> "Err"]
             ELSE [it |-> [it EXCEPT !.position = @ + parsed.value.consumed,
                                     !.cursor = it.position + parsed.value.consumed,
                                     !.buffer_len = bytes_read],
                   item |-> "Ok"]

\* WalLog::create on users.wal
InitLog ==
    /\ now = 0
    /\ nops = 0
    /\ flush_threshold = FlushThresholdLow
    /\ compression = CompressionNone
    /\ InitCollection
    /\ dir_exists = TRUE
    /\ wal_files = [n \in {Users} |-> WalPreamble(0)]
    /\ collection_wals = [n \in {Users} |->
                             [position |-> WAL_HEADER_SIZE, next_tx_id |-> 1,
                              last_checkpoint |-> 0]]
    /\ mgr_alive = FALSE
    /\ crashes = 0
    /\ recovers = 0
    /\ death = [torn |-> {}, cache |-> EmptyMap]
    /\ collections = {}
    /\ checkpoint_interval = 0
    /\ max_open_collections = DefaultMaxOpenCollections
    /\ first_key = NoKey
    /\ active_transactions = EmptyMap
    /\ entry_cache = EmptyMap
    /\ last_auto_checkpoint = 0
    /\ txs = <<>>
    /\ returned = EmptyMap
    /\ last_op = [op |-> "none", ret |-> "Ok", position |-> 0, entry |-> None]
    /\ wal_guard = 0
    /\ inflight = [t \in 1..MaxThreads |-> None]
    /\ arcs = [map |-> 0, held |-> [t \in 1..MaxThreads |-> 0]]

\* appends of entries with a small payload and with one of BigPayloadLen bytes,
\* reads at the ends of the log and at the first entry, a reopen
NextLog ==
    \/ Tick
    \/ \E entry_type \in {Insert, CommitTx}, transaction_id \in 0..1 :
           WalLogAppend(WalEntryNew(entry_type, CollectionIds[Users],
                                    transaction_id, <<107>>, WalValue, now))
    \/ WalLogAppend(WalEntryNew(Insert, CollectionIds[Users], 0, <<107>>,
                                [i \in 1..BigPayloadLen |-> 7], now))
    \/ \E position \in {0, WAL_HEADER_SIZE} : WalLogReadAt(position)
    \/ \E back \in 0..1 : WalLogReadAt(collection_wals[Users].position - back)
    \/ WalLogOpen

SpecLog == InitLog /\ [][NextLog]_vars

\* appends to a log that is reopened and damaged once
NextLogDamaged ==
    \/ \E entry_type \in {Insert, CommitTx}, transaction_id \in 0..1 :
           WalLogAppend(WalEntryNew(entry_type, CollectionIds[Users],
                                    transaction_id, <<107>>, WalValue, now))
    \/ WalLogAppend(WalEntryNew(Insert, CollectionIds[Users], 0, <<107>>,
                                [i \in 1..BigPayloadLen |-> 7], now))
    \/ WalLogOpen
    \/ \E kind \in {"magic", "checksum", "torn"} : WalLogDamage(kind)

SpecLogDamaged == InitLog /\ [][NextLogDamaged]_vars

(***************************************************************************)
(* Claims about the WAL manager.                                           *)
(***************************************************************************)
\* recover() has just returned on a manager created after the process died
AfterRestartRecovery ==
    last_op.op = "recover" /\ last_op.fresh /\ crashes > 0

\* C2: for every transaction whose commit_transaction returned Ok, after a
\* crash and recover() on a fresh manager over the same directory, entry_cache
\* has a position for every (collection, id) written under the transaction
C2_CommittedRecovered ==
    (AfterRestartRecovery /\ last_op.ret = "Ok")
    => \A i \in DOMAIN txs :
           txs[i].state = "committed"
           => \A w \in txs[i].writes :
                  <<w.name, w.document_id>> \in DOMAIN entry_cache

\* C3: after recover(), entry_cache holds no position of an entry written
\* under a transaction that was aborted or was never committed before the crash
C3_UncommittedNotRecovered ==
    last_op.op = "recover"
    => \A i \in DOMAIN txs :
           txs[i].state \in {"aborted", "lost"}
           => \A w \in txs[i].writes :
                  ~(/\ <<w.name, w.document_id>> \in DOMAIN entry_cache
                    /\ entry_cache[<<w.name, w.document_id>>] = w.position)

\* C8: recovery over a log whose last entry is truncated inside its header or
\* its payload returns without error, and the non-transactional entries
\* before the torn tail are in entry_cache
C8_TornTailIgnored ==
    (AfterRestartRecovery /\ death.torn # {})
    => /\ last_op.ret = "Ok"
       /\ \A key \in DOMAIN death.cache : key \in DOMAIN entry_cache

\* the transaction ids carried by the entries of a log
LogTxIds(file) ==
    {iterate(file).items[k].entry.transaction_id :
        k \in DOMAIN iterate(file).items}

\* C9: after recover(), next_tx_id of every collection log is greater than
\* every transaction_id carried by an entry of that log
C9_NextTxIdAboveLog ==
    (last_op.op = "recover" /\ last_op.ret = "Ok")
    => \A name \in DOMAIN wal_files :
           /\ name \in DOMAIN collection_wals
           /\ \A t \in LogTxIds(wal_files[name]) :
                  collection_wals[name].next_tx_id > t

\* C10: begin_transaction returns an id that is not in active_transactions and
\* that the manager has not returned before
C10_FreshTxId ==
    \A id \in DOMAIN returned : returned[id] <= 1

\* C11: insert_in_transaction, update_in_transaction, delete_in_transaction,
\* commit_transaction and abort_transaction called with a tx_id that is not in
\* active_transactions return an error and leave the WAL files, the open logs,
\* active_transactions and entry_cache as they are
C11_UnknownTransaction ==
    mgr_alive
    => \A tx_id \in (1..MaxTxId) \ DOMAIN active_transactions :
           /\ \A entry_type \in {Insert, Update, Delete}, name \in WalNames,
                 id \in WalDocIds, takeFirst \in BOOLEAN :
                  LET r == WriteInTransaction(World, entry_type, tx_id, name, id,
                                              WalValue, now, takeFirst)
                  IN  r.ret = "Err" /\ r.w = World
           /\ \A entry_type \in {CommitTx, AbortTx} :
                  LET r == FinishTransaction(World, entry_type, tx_id, now)
                  IN  r.ret = "Err" /\ r.w = World

\* a call with an unknown id returned while another transaction is active and
\* a log is open
C11_Witness ==
    /\ last_op.op \in {"insert_in_transaction", "update_in_transaction",
                      "delete_in_transaction", "commit_transaction",
                      "abort_transaction"}
    /\ last_op.ret = "Err"
    /\ active_transactions # EmptyMap
    /\ Users \in DOMAIN collection_wals
    /\ \E i \in DOMAIN txs : txs[i].writes # {}

\* C19: with checkpoint_interval = 0 no insert, update, delete or transaction
\* operation enters the auto-checkpoint: none of them ends in the checkpoint
\* recursion, and the number of Checkpoint entries in every log changes only
\* in an explicit checkpoint(collection) call
C19_NoAutoCheckpoint ==
    [][LET CheckpointEntries(file) ==
               Cardinality({p \in WAL_HEADER_SIZE..(Len(file) - 5) :
                               /\ Slice(file, p, p + 4) = EntryHeaderMAGIC
                               /\ file[p + 5] = Checkpoint})
       IN  checkpoint_interval = 0 =>
               /\ last_op'.ret # "overflow"
               /\ last_op'.op # "checkpoint" =>
                      \A name \in DOMAIN wal_files' :
                          CheckpointEntries(wal_files'[name]) =
                              IF name \in DOMAIN wal_files
                              THEN CheckpointEntries(wal_files[name]) ELSE 0]_vars

\* the clock has advanced past last_auto_checkpoint, a log holds the Checkpoint
\* entry of an explicit call, and a write in a transaction has succeeded
C19_Witness ==
    /\ checkpoint_interval = 0
    /\ mgr_alive
    /\ now > last_auto_checkpoint
    /\ last_op.op = "insert_in_transaction"
    /\ last_op.ret = "Ok"
    /\ \E name \in DOMAIN wal_files :
           \E p \in WAL_HEADER_SIZE..(Len(wal_files[name]) - 5) :
               /\ Slice(wal_files[name], p, p + 4) = EntryHeaderMAGIC
               /\ wal_files[name][p + 5] = Checkpoint

\* C20: when checkpoint_interval > 0, the interval has elapsed since
\* last_auto_checkpoint and a collection log is open, the next insert, update
\* or delete completes, every open log has one more Checkpoint entry, and
\* last_auto_checkpoint is reset to the time of the call
C20_AutoCheckpointCompletes ==
    [][LET CheckpointEntries(file) ==
               Cardinality({p \in WAL_HEADER_SIZE..(Len(file) - 5) :
                               /\ Slice(file, p, p + 4) = EntryHeaderMAGIC
                               /\ file[p + 5] = Checkpoint})
       IN  (/\ mgr_alive
            /\ checkpoint_interval > 0
            /\ now - last_auto_checkpoint >= checkpoint_interval
            /\ DOMAIN collection_wals # {}
            /\ last_op'.op \in {"insert", "update", "delete"}) =>
               /\ last_op'.ret = "Ok"
               /\ last_auto_checkpoint' = now
               /\ \A name \in DOMAIN collection_wals :
                      CheckpointEntries(wal_files'[name]) =
                          CheckpointEntries(wal_files[name]) + 1]_vars

\* C27: appends to one WalLog are contiguous: the first returns the preamble
\* size, every append returns the end of the file as it was, leaves the bytes
\* before it unchanged and ends the file right after the entry, also after the
\* log is closed and opened again
C27_AppendsContiguous ==
    [][(nops' = nops + 1 /\ last_op'.op = "append") =>
           LET file == wal_files[Users]
               bytes == WalEntryToBytes(last_op'.entry)
           IN  /\ last_op'.position = Len(file)
               /\ nops = 0 => last_op'.position = WAL_HEADER_SIZE
               /\ SubSeq(wal_files'[Users], 1, Len(file)) = file
               /\ SubSeq(wal_files'[Users], Len(file) + 1,
                         Len(wal_files'[Users])) = bytes
               /\ collection_wals'[Users].position
                      = last_op'.position + Len(bytes)]_vars

\* an append after an append and a reopen of the log
C27_Witness ==
    /\ last_op.op = "append"
    /\ last_op.position > WAL_HEADER_SIZE
    /\ recovers > 0
    /\ nops = MaxLogAppends

\* C28: iterate() on a log built by appends yields the appended entries with
\* the positions append returned, in append order, and ends without an error:
\* each append adds its (position, entry) to the end of what iterate() yields
C28_IterateYieldsAppends ==
    [][(nops' = nops + 1 /\ last_op'.op = "append") =>
           iterate(wal_files'[Users])
               = [items |-> iterate(wal_files[Users]).items
                                \o <<[position |-> last_op'.position,
                                      entry |-> last_op'.entry]>>,
                  ret |-> "Ok"]]_vars

\* C29: on the file of a log, damaged or not, WalIterator::next called again
\* and again returns None, also when calls before returned an error: at most
\* MaxNextCalls calls return an item
C29_IterationFinite ==
    LET file == wal_files[Users]
        start == [position |-> WAL_HEADER_SIZE,
                  end_position |-> collection_wals[Users].position,
                  cursor |-> WAL_HEADER_SIZE,
                  buffer_len |-> WAL_BUFFER_SIZE]
        RECURSIVE NoneWithin(_, _)
        NoneWithin(it, calls) ==
            LET r == WalIteratorNext(file, it)
            IN  IF r.item = "None" THEN TRUE
                ELSE IF calls = 0 THEN FALSE
                ELSE NoneWithin(r.it, calls - 1)
    IN  NoneWithin(start, MaxNextCalls)

\* the log was damaged after appends, the iterator returns an entry, then an
\* error, then None
C29_Witness ==
    LET file == wal_files[Users]
        start == [position |-> WAL_HEADER_SIZE,
                  end_position |-> collection_wals[Users].position,
                  cursor |-> WAL_HEADER_SIZE,
                  buffer_len |-> WAL_BUFFER_SIZE]
        r1 == WalIteratorNext(file, start)
        r2 == WalIteratorNext(file, r1.it)
        r3 == WalIteratorNext(file, r2.it)
    IN  /\ crashes > 0
        /\ r1.item = "Ok"
        /\ r2.item = "Err"
        /\ r3.item = "None"

\* C30: recover() changes no byte of any .wal file and leaves blocks.bin as it
\* is; every log it holds afterwards is positioned at the end of its file, and
\* the write that follows a recover() only extends the files
C30_RecoveryReadOnly ==
    [][/\ (recovers' = recovers + 1 /\ last_op'.op = "recover") =>
              /\ wal_files' = wal_files
              /\ UNCHANGED <<file_exists, file_content>>
              /\ \A name \in DOMAIN collection_wals' :
                     collection_wals'[name].position = Len(wal_files[name])
       /\ (/\ last_op.op = "recover"
           /\ nops' = nops + 1
           /\ last_op'.op \in {"insert", "update", "delete"}
           /\ last_op'.ret = "Ok") =>
              \A name \in DOMAIN wal_files :
                  /\ Len(wal_files'[name]) >= Len(wal_files[name])
                  /\ SubSeq(wal_files'[name], 1, Len(wal_files[name]))
                         = wal_files[name]]_vars

\* a write has succeeded right after a recover() that found a log with entries
C30_Witness ==
    /\ recovers > 0
    /\ crashes > 0
    /\ last_op.op \in {"insert", "update", "delete"}
    /\ last_op.ret = "Ok"
    /\ entry_cache # EmptyMap
    /\ \E name \in DOMAIN wal_files :
           Len(iterate(wal_files[name]).items) > 1

\* C31: after non-transactional insert/update/delete calls that all returned
\* (no automatic checkpoint, no torn tail), recover() on a fresh manager over
\* the same directory succeeds and builds the entry_cache the manager that made
\* the calls held: each (collection, id) at the position of its last entry
C31_RecoveryReproducesIndex ==
    (AfterRestartRecovery /\ death.torn = {} /\ checkpoint_interval = 0)
    => /\ last_op.ret = "Ok"
       /\ entry_cache = death.cache

\* C32: commit_transaction / abort_transaction of an active transaction t
\* appends exactly one CommitTx / AbortTx entry carrying t to one log, leaves
\* the other logs alone and removes t from active_transactions; from then on
\* every transactional write, commit or abort made with the id t fails and
\* appends nothing
C32_FinishedOnce ==
    [][\A i \in DOMAIN txs :
         /\ (mgr_alive' /\ txs[i].state = "active"
             /\ txs'[i].state \in {"committed", "aborted"})
            => /\ txs[i].id \notin DOMAIN active_transactions'
               /\ \E name \in DOMAIN wal_files :
                      /\ wal_files'[name] = wal_files[name] \o WalEntryToBytes(
                             WalEntryNew(IF txs'[i].state = "committed"
                                         THEN CommitTx ELSE AbortTx,
                                         LE(0, 8), txs[i].id, <<>>, <<>>, now))
                      /\ \A other \in DOMAIN wal_files' \ {name} :
                             /\ other \in DOMAIN wal_files
                             /\ wal_files'[other] = wal_files[other]
         /\ \A j \in DOMAIN txs :
                (/\ txs[i].state \in {"committed", "aborted"}
                 /\ txs[j].id = txs[i].id
                 /\ mgr_alive'
                 /\ txs'[j] # txs[j])
                => /\ txs'[j].state = "refused"
                   /\ wal_files' = wal_files]_vars

\* C35: calls on the shared WalManager are serialized by its lock: at most one
\* thread is inside a call; every append extends its log file and changes no
\* byte written before, so each append has a position of its own and entries
\* do not interleave; and whenever the lock is free the fields of the manager
\* agree with the files: every log is positioned at its end and reads as whole
\* entries, entry_cache names for each id the last entry appended for it, and
\* every position kept in active_transactions holds an entry of that
\* transaction
C35_ManagerLockSerializes ==
    [][/\ Cardinality({t \in 1..MaxThreads : inflight'[t] # None}) <= 1
       /\ \A name \in DOMAIN wal_files :
              /\ Len(wal_files'[name]) >= Len(wal_files[name])
              /\ SubSeq(wal_files'[name], 1, Len(wal_files[name]))
                     = wal_files[name]
       /\ wal_guard' = 0 =>
              /\ \A name \in DOMAIN collection_wals' :
                     /\ collection_wals'[name].position = Len(wal_files'[name])
                     /\ iterate(wal_files'[name]).ret = "Ok"
              /\ entry_cache' =
                     IF Users \in DOMAIN wal_files'
                     THEN RecoverLoop(Users, wal_files'[Users], WAL_HEADER_SIZE,
                                      WAL_BUFFER_SIZE, {}, EmptyMap, EmptyMap).ec
                     ELSE EmptyMap
              /\ \A tx_id \in DOMAIN active_transactions' :
                     \A k \in DOMAIN active_transactions'[tx_id] :
                         \E name \in DOMAIN wal_files' :
                             LET e == read_at(wal_files'[name],
                                              Len(wal_files'[name]),
                                              active_transactions'[tx_id][k])
                             IN  /\ e # Err
                                 /\ e.value.transaction_id = tx_id]_vars

\* thread 1 has returned from a call that appended, and thread 2 is inside its
\* own call, its entry in the file and not yet in the fields of the manager
C35_Witness ==
    /\ last_op.op = "shared"
    /\ last_op.thread = 1
    /\ last_op.ret = "Ok"
    /\ inflight[2] # None
    /\ inflight[2].value.stage = "appended"
    /\ inflight[2].value.ret = "Ok"
    /\ wal_guard = 2

\* C39: while a manager lives, no operation on it, recover() included, takes a
\* log out of collection_wals or lowers its next_tx_id, and after every
\* operation next_tx_id of every log is above every id in active_transactions
C39_NextTxIdMonotonic ==
    [][(mgr_alive /\ mgr_alive') =>
         /\ \A name \in DOMAIN collection_wals :
                /\ name \in DOMAIN collection_wals'
                /\ collection_wals'[name].next_tx_id
                       >= collection_wals[name].next_tx_id
         /\ \A name \in DOMAIN collection_wals',
               tx_id \in DOMAIN active_transactions' :
                collection_wals'[name].next_tx_id > tx_id]_vars

\* C18: an entry appended to a WalLog at the returned position p is returned
\* by read_at(p), equal in type, collection id, transaction id, document id and
\* payload, whatever the size of the payload
C18_ReadAtRoundTrip ==
    last_op.op = "append" =>
        read_at(wal_files[Users], collection_wals[Users].position,
                last_op.position) = Ok(last_op.entry)

(***************************************************************************)
(* Claims about the database.                                              *)
(***************************************************************************)
\* C36: at most one Collection instance of the directory users is alive: the
\* Arc in Database.collections and the clones get_collection handed to the
\* threads all name the same instance, also after close_collection and
\* open_collection
C36_SingleInstance ==
    Cardinality(({arcs.map} \cup {arcs.held[t] : t \in 1..MaxThreads}) \ {0}) <= 1

\* the log of the collection holds an entry for the document
WalHasEntryFor(name, id) ==
    /\ name \in DOMAIN wal_files
    /\ \E k \in DOMAIN iterate(wal_files[name]).items :
           iterate(wal_files[name]).items[k].entry.document_id = id

\* C13: open_collection(name) on a collection that is open already succeeds
\* and leaves the collection's active block, its slot index and the map of
\* open collections as they are, also when the number of open collections
\* equals max_open_collections
C13_OpenIdempotent ==
    [][(Users \in collections /\ DatabaseOpenCollection(Users))
       => /\ last_op'.ret = "Ok"
          /\ UNCHANGED <<active_block, current_block_idx, collections>>]_vars

\* C14: after drop_collection(name) the collection is not in the map of open
\* collections and its directory does not exist; the active block of the
\* collection was flushed before the directory was removed; and after a later
\* open_collection(name), get(id) returns None for every id inserted before the
\* drop
C14_DropCollection ==
    /\ last_op.op = "drop_collection"
       => /\ Users \notin collections
          /\ ~dir_exists
          /\ ~file_exists
          /\ (\E id \in DocIds : hist[id].state = "dropped") => written # {}
    /\ \A id \in DocIds :
           (hist[id].state = "dropped" /\ Users \in collections)
           => CollectionGet(Handle, id) = None

\* a collection that held a document in its active block was dropped and
\* opened again
C14_Witness ==
    /\ Users \in collections
    /\ dir_exists
    /\ last_op.op = "open_collection"
    /\ \A id \in DocIds : hist[id].state = "dropped"
    /\ written # {}

\* C4: every document a store-level insert or delete wrote to the block store
\* of a collection has a WAL entry for the same (collection, id)
C4_WalBeforeData ==
    \A id \in DocIds :
        hist[id].state = "flushed" => WalHasEntryFor(Users, id)
=============================================================================
